---- MODULE Spec2Model ----
(***************************************************************************)
(* Widget registrar of mcp-use (server/widgets): uiResourceRegistration    *)
(* and the protocol helpers it calls.  One widget definition is registered *)
(* as a resource, a resource template and a tool on a live server, and is  *)
(* re-registered in place on a hot (HMR) update.                           *)
(*                                                                         *)
(* JavaScript objects are functions from key strings to values; a key that *)
(* is absent (or undefined) is outside the DOMAIN.  {...a, ...b} is        *)
(* b @@ a.  An optional object is a sequence of length 0 or 1.             *)
(***************************************************************************)
EXTENDS Integers, Sequences, FiniteSets, TLC

VARIABLES
    serverBaseUrl,      \* server.serverBaseUrl ("" when unset)
    buildId,            \* server.buildId ("" when unset)
    hasAddWidgetTool,   \* typeof server.addWidgetTool === "function"
    widgetDefinitions,  \* server.widgetDefinitions : name -> stored entry
    resources,          \* server.registrations.resources : key -> record
    resourceTemplates,  \* server.registrations.resourceTemplates
    tools,              \* server.registrations.tools
    sessions,           \* server.sessions : session id -> session kind
    dispatch,           \* callbacks handed to the transport at creation
    timers,             \* pending setTimeout callbacks
    nextId,             \* allocator of object identities
    latest,             \* name -> enriched definition of its last registration
    lastCall,           \* what the uiResourceRegistration call just made did
    lastResult,         \* result of the handler invocation / callback just run
    regCount,           \* number of uiResourceRegistration calls so far
    input,              \* argument of a helper function applied on its own
    output              \* what the helper returned for it

vars == <<serverBaseUrl, buildId, hasAddWidgetTool, widgetDefinitions,
          resources, resourceTemplates, tools, sessions, dispatch, timers,
          nextId, latest, lastCall, lastResult, regCount, input, output>>

----------------------------------------------------------------------------
(* Bounds *)

MaxRegs == 2        \* uiResourceRegistration calls in one behaviour
MaxSessions == 3    \* session ids
MaxCspFields == 2   \* CSP fields declared by a definition given to a helper

----------------------------------------------------------------------------
(* Values *)

EmptyMap == [k \in {} |-> k]

Names == {"w", "v"}
LegacyTypes == {"externalUrl", "rawHtml", "remoteDom"}
WidgetTypes == LegacyTypes \cup {"appsSdk", "mcpApps"}
Titles == {"A", "B"}
Tri == {"unset", "true", "false"}

HostOrigin == "https://host:3000"
Cdn == "https://cdn"

\* JS spread of an optional object: {...(x || {})}
Keys(m) == DOMAIN m
Has(m, k) == k \in DOMAIN m
Includes(s, x) == \E i \in 1..Len(s) : s[i] = x

\* the position of the first occurrence of `part` in the string `s`, 0 if
\* there is none
IndexOf(s, part) ==
    LET hits == {i \in 1..(Len(s) - Len(part) + 1) :
                    SubSeq(s, i, i + Len(part) - 1) = part}
    IN  IF hits = {} THEN 0 ELSE CHOOSE i \in hits : \A j \in hits : i <= j

\* a field value that is not a sequence (a string, a number, an object)
NonSequence == <<"#non-sequence">>
IsArray(v) == v # NonSequence

\* a value that is not an object (typeof v !== "object"): a string, a number
NonObject == [k \in {"#non-object"} |-> TRUE]
IsObject(v) == v # NonObject

CamelFields == {"connectDomains", "resourceDomains", "frameDomains",
                "baseUriDomains", "scriptDirectives", "styleDirectives"}

SnakeOf(f) ==
    CASE f = "connectDomains"   -> "connect_domains"
      [] f = "resourceDomains"  -> "resource_domains"
      [] f = "frameDomains"     -> "frame_domains"
      [] f = "baseUriDomains"   -> "base_uri_domains"
      [] f = "scriptDirectives" -> "script_directives"
      [] f = "styleDirectives"  -> "style_directives"

\* A widget definition (UIResourceDefinition).  exposeAsTool is tri-state;
\* meta is the definition's _meta object, whose "mcp-use/widget" block may
\* carry a legacy exposeAsTool; metadata is the CSP-bearing block of an mcpApps widget (EmptyMap when
\* undefined); appsSdkMetadata is optional.
MkDef(type, name, title, exposeAsTool, meta, metadata, appsSdkMetadata) ==
    [type |-> type, name |-> name, widget |-> name, title |-> title,
     exposeAsTool |-> exposeAsTool, meta |-> meta,
     metadata |-> metadata, appsSdkMetadata |-> appsSdkMetadata]

----------------------------------------------------------------------------
(* protocol-helpers.ts *)

\* adapters/mcp-apps.ts McpAppsAdapter.buildToolMetadata
McpAppsBuildToolMetadata(definition, uri) == "ui.resourceUri" :> uri

AppsSdkToolFields == {"openai/toolInvocation/invoking", "openai/toolInvocation/invoked",
                      "openai/widgetAccessible", "openai/resultCanProduceWidget"}

\* adapters/apps-sdk.ts AppsSdkAdapter.buildToolMetadata
AppsSdkBuildToolMetadata(definition, uri) ==
    LET block == IF definition.appsSdkMetadata = <<>> THEN EmptyMap
                 ELSE definition.appsSdkMetadata[1]
        copied == [k \in (DOMAIN block) \cap AppsSdkToolFields |-> block[k]]
    IN  copied @@ ("openai/outputTemplate" :> uri)

\* adapters/mcp-apps.ts McpAppsAdapter.buildResourceMetadata: the ui object,
\* only the keys present on the definition
McpAppsBuildResourceMetadata(definition) ==
    LET md == definition.metadata
    IN  [k \in (DOMAIN md) \cap {"csp", "prefersBorder", "domain", "permissions"} |-> md[k]]

\* camelCase CSP of a definition to the snake_case openai/widgetCSP object
CamelCaseCspToSnakeCase(csp) ==
    [s \in {SnakeOf(f) : f \in DOMAIN csp} |->
        csp[CHOOSE f \in DOMAIN csp : SnakeOf(f) = s]]

\* adapters/apps-sdk.ts AppsSdkAdapter.buildResourceMetadata: the _meta object
AppsSdkBuildResourceMetadata(definition) ==
    IF definition.type = "mcpApps"
    THEN IF Has(definition.metadata, "csp")
         THEN "openai/widgetCSP" :> CamelCaseCspToSnakeCase(definition.metadata.csp)
         ELSE EmptyMap
    ELSE IF definition.appsSdkMetadata # <<>>
            /\ Has(definition.appsSdkMetadata[1], "openai/widgetCSP")
         THEN "openai/widgetCSP" :> definition.appsSdkMetadata[1]["openai/widgetCSP"]
         ELSE EmptyMap

\* faulty variant of buildDualProtocolMetadata: the existing metadata is
\* spread last
buildDualProtocolMetadata_existingWins(definition, uri, existingMetadata) ==
    LET mcpAppsToolMeta == McpAppsBuildToolMetadata(definition, uri)
        appsSdkToolMeta == AppsSdkBuildToolMetadata(definition, uri)
        appsSdkResourceMeta == AppsSdkBuildResourceMetadata(definition)
    IN  existingMetadata @@ appsSdkResourceMeta @@ appsSdkToolMeta @@ mcpAppsToolMeta

buildDualProtocolMetadata(definition, uri, existingMetadata) ==
    LET mcpAppsToolMeta == McpAppsBuildToolMetadata(definition, uri)
        appsSdkToolMeta == AppsSdkBuildToolMetadata(definition, uri)
        appsSdkResourceMeta == AppsSdkBuildResourceMetadata(definition)
    IN  appsSdkResourceMeta @@ appsSdkToolMeta @@ mcpAppsToolMeta @@ existingMetadata

\* faulty variant of snakeCaseCspToCamelCase: frame_domains and
\* base_uri_domains land on each other's camelCase key
snakeCaseCspToCamelCase_swapped(wcsp) ==
    IF wcsp = <<>> \/ ~IsObject(wcsp[1]) THEN <<>>
    ELSE LET src == wcsp[1]
             Swap(f) == CASE f = "frameDomains" -> "baseUriDomains"
                          [] f = "baseUriDomains" -> "frameDomains"
                          [] OTHER -> f
             conv == {f \in CamelFields :
                         Has(src, SnakeOf(Swap(f))) /\ IsArray(src[SnakeOf(Swap(f))])}
             result == [f \in conv |-> src[SnakeOf(Swap(f))]]
         IN  IF conv # {} THEN <<result>> ELSE <<>>

\* faulty variant of snakeCaseCspToCamelCase: a field is copied whatever its
\* value is
snakeCaseCspToCamelCase_copiesAny(wcsp) ==
    IF wcsp = <<>> \/ ~IsObject(wcsp[1]) THEN <<>>
    ELSE LET src == wcsp[1]
             conv == {f \in CamelFields : Has(src, SnakeOf(f))}
             result == [f \in conv |-> src[SnakeOf(f)]]
         IN  IF conv # {} THEN <<result>> ELSE <<>>

\* returns <<>> for undefined, <<result>> otherwise
snakeCaseCspToCamelCase(wcsp) ==
    IF wcsp = <<>> \/ ~IsObject(wcsp[1]) THEN <<>>
    ELSE LET src == wcsp[1]
             conv == {f \in CamelFields :
                         Has(src, SnakeOf(f)) /\ IsArray(src[SnakeOf(f)])}
             result == [f \in conv |-> src[SnakeOf(f)]]
         IN  IF conv # {} THEN <<result>> ELSE <<>>

\* returns <<>> for undefined, <<uiMeta>> otherwise
buildResourceUiMeta(definition) ==
    LET uiMeta0 == McpAppsBuildResourceMetadata(definition)
        appsSdkResourceMeta == AppsSdkBuildResourceMetadata(definition)
        openaiWidgetCSP == IF Has(appsSdkResourceMeta, "openai/widgetCSP")
                           THEN <<appsSdkResourceMeta["openai/widgetCSP"]>>
                           ELSE <<>>
        csp == snakeCaseCspToCamelCase(openaiWidgetCSP)
        uiMeta == IF definition.type = "mcpApps" /\ csp # <<>>
                  THEN ("csp" :> csp[1]) @@ uiMeta0
                  ELSE uiMeta0
    IN  IF Keys(uiMeta) # {} THEN <<uiMeta>> ELSE <<>>

getBuildIdPart(b) == IF b # "" THEN "-" \o b ELSE ""

\* widget-helpers.ts generateWidgetUri(name, buildId, extension)
generateWidgetUri(name, b, extension) ==
    "ui://widget/" \o name \o getBuildIdPart(b) \o extension

\* Math.random().toString(36).substring(2, 15)
RandomIds == {"abc123", "k", "0z9"}

\* faulty variant of generateUniqueWidgetUri: the build id is left out
generateUniqueWidgetUri_noBuildId(name, b, extension, randomId) ==
    "ui://widget/" \o name \o "-" \o randomId \o extension

\* generateUniqueWidgetUri(name, buildId, extension = ".html"), with the
\* random id it draws
generateUniqueWidgetUri(name, b, extension, randomId) ==
    LET buildIdPart == IF b # "" THEN "-" \o b ELSE ""
    IN  "ui://widget/" \o name \o buildIdPart \o "-" \o randomId \o extension

\* the value of a property that is not there
Undefined == "undefined"

\* getResourceUriAndMimeType(definition, buildId): {uri, mimeType}, or the
\* thrown Error("Unknown widget type: ...")
getResourceUriAndMimeType(definition, b) ==
    LET buildIdPart == IF b # "" THEN "-" \o b ELSE ""
        hrefOrUrl == IF definition.href # <<>> THEN definition.href[1]
                     ELSE IF definition.url # <<>> THEN definition.url[1]
                     ELSE Undefined
    IN  CASE definition.type = "externalUrl" ->
                [threw |-> FALSE, uri |-> hrefOrUrl, mimeType |-> "text/uri-list"]
          [] definition.type = "rawHtml" ->
                [threw |-> FALSE,
                 uri |-> "ui://widget/" \o definition.name \o buildIdPart \o ".html",
                 mimeType |-> "text/html"]
          [] definition.type = "remoteDom" ->
                [threw |-> FALSE,
                 uri |-> "ui://widget/" \o definition.name \o buildIdPart \o ".js",
                 mimeType |-> "application/vnd.mcp-ui.remote-dom+javascript"]
          [] definition.type = "mcpApps" ->
                [threw |-> FALSE,
                 uri |-> "ui://widget/" \o definition.name \o buildIdPart \o ".html",
                 mimeType |-> "text/html;profile=mcp-app"]
          [] OTHER ->
                [threw |-> TRUE, uri |-> Undefined, mimeType |-> Undefined]

----------------------------------------------------------------------------
(* ui-resource-registration *)

\* faulty variant of enrichDefinitionWithServerOrigin: the origin is appended
\* to a list that already holds it
enrichDefinitionWithServerOrigin_alwaysAppends(definition, serverOrigin) ==
    IF serverOrigin = "" \/ definition.type # "mcpApps"
    THEN definition
    ELSE LET csp0 == IF Has(definition.metadata, "csp")
                     THEN definition.metadata.csp ELSE EmptyMap
             Add(csp, f) ==
                 IF ~Has(csp, f) THEN (f :> <<serverOrigin>>) @@ csp
                 ELSE (f :> Append(csp[f], serverOrigin)) @@ csp
             csp3 == Add(Add(Add(csp0, "resourceDomains"), "connectDomains"),
                         "baseUriDomains")
             enrichedMetadata == ("csp" :> csp3) @@ definition.metadata
         IN  [definition EXCEPT !.metadata = enrichedMetadata]

\* faulty variant of enrichDefinitionWithServerOrigin: the origin is put in
\* front of the declared domains
enrichDefinitionWithServerOrigin_prepends(definition, serverOrigin) ==
    IF serverOrigin = "" \/ definition.type # "mcpApps"
    THEN definition
    ELSE LET csp0 == IF Has(definition.metadata, "csp")
                     THEN definition.metadata.csp ELSE EmptyMap
             Add(csp, f) ==
                 IF ~Has(csp, f) THEN (f :> <<serverOrigin>>) @@ csp
                 ELSE IF ~Includes(csp[f], serverOrigin)
                      THEN (f :> (<<serverOrigin>> \o csp[f])) @@ csp
                      ELSE csp
             csp3 == Add(Add(Add(csp0, "resourceDomains"), "connectDomains"),
                         "baseUriDomains")
             enrichedMetadata == ("csp" :> csp3) @@ definition.metadata
         IN  [definition EXCEPT !.metadata = enrichedMetadata]

\* faulty variant of enrichDefinitionWithServerOrigin: the origin is put into
\* frameDomains as well
enrichDefinitionWithServerOrigin_framesToo(definition, serverOrigin) ==
    IF serverOrigin = "" \/ definition.type # "mcpApps"
    THEN definition
    ELSE LET csp0 == IF Has(definition.metadata, "csp")
                     THEN definition.metadata.csp ELSE EmptyMap
             Add(csp, f) ==
                 IF ~Has(csp, f) THEN (f :> <<serverOrigin>>) @@ csp
                 ELSE IF ~Includes(csp[f], serverOrigin)
                      THEN (f :> Append(csp[f], serverOrigin)) @@ csp
                      ELSE csp
             csp4 == Add(Add(Add(Add(csp0, "resourceDomains"), "connectDomains"),
                             "baseUriDomains"), "frameDomains")
             enrichedMetadata == ("csp" :> csp4) @@ definition.metadata
         IN  [definition EXCEPT !.metadata = enrichedMetadata]

enrichDefinitionWithServerOrigin(definition, serverOrigin) ==
    IF serverOrigin = "" \/ definition.type # "mcpApps"
    THEN definition
    ELSE LET csp0 == IF Has(definition.metadata, "csp")
                     THEN definition.metadata.csp ELSE EmptyMap
             Add(csp, f) ==
                 IF ~Has(csp, f) THEN (f :> <<serverOrigin>>) @@ csp
                 ELSE IF ~Includes(csp[f], serverOrigin)
                      THEN (f :> Append(csp[f], serverOrigin)) @@ csp
                      ELSE csp
             csp3 == Add(Add(Add(csp0, "resourceDomains"), "connectDomains"),
                         "baseUriDomains")
             enrichedMetadata == ("csp" :> csp3) @@ definition.metadata
         IN  [definition EXCEPT !.metadata = enrichedMetadata]

\* new URL(serverBaseUrl).origin
UrlOrigin(url) ==
    CASE url = "https://host:3000/mcp" -> HostOrigin
      [] OTHER -> url

SessionIds == 1..MaxSessions

\* what session.server.sendToolListChanged is for session s: a working
\* notifier ("ok"), one that throws (disconnected transport), or undefined
SessionKindOf(s) ==
    CASE s % 3 = 1 -> "throws"
      [] s % 3 = 2 -> "ok"
      [] OTHER     -> "noNotifier"

NoNotifications == [s \in DOMAIN sessions |-> 0]

\* iteration order of a Map: insertion order, here the order of the ids
RECURSIVE Ascending(_)
Ascending(S) ==
    IF S = {} THEN <<>>
    ELSE LET m == CHOOSE x \in S : \A y \in S : x <= y
         IN  <<m>> \o Ascending(S \ {m})

\* faulty variant of CatchNotifierError: the error leaves the loop
CatchNotifierError_rethrows(run) == [run EXCEPT !.error = TRUE]

\* try { session.server.sendToolListChanged() } catch { }: the error of a
\* throwing notifier is dropped
CatchNotifierError(run) == run

\* for (const [, session] of server.sessions): calls[s] counts the calls of
\* session s's sendToolListChanged, error says an exception left the loop
RECURSIVE NotifySessions(_, _)
NotifySessions(order, run) ==
    IF order = <<>> \/ run.error THEN run
    ELSE LET s == Head(order)
             called == [run EXCEPT !.calls[s] = @ + 1]
         IN  IF sessions[s] = "noNotifier"
             THEN NotifySessions(Tail(order), run)
             ELSE NotifySessions(Tail(order),
                                 IF sessions[s] = "throws"
                                 THEN CatchNotifierError(called) ELSE called)

NotifyRun ==
    NotifySessions(Ascending(DOMAIN sessions),
                   [calls |-> NoNotifications, error |-> FALSE])

\* number of sendToolListChanged calls a notification loop makes per session
NotifyLoop == NotifyRun.calls

\* faulty variant of SchedulesDelayedNotification: setTimeout on both branches
SchedulesDelayedNotification_always(hasAdd) == TRUE

\* initial tool registration: addWidgetTool when the server has it, otherwise
\* server.tool followed by setTimeout(notify, 50)
SchedulesDelayedNotification(hasAdd) == ~hasAdd

\* server.propagateWidgetResourcesToSessions(name): every live session gets
\* one resource-list-changed notification
propagateWidgetResourcesToSessions(name) == [s \in DOMAIN sessions |-> 1]

\* faulty variants of ShouldPropagate: propagation inside the exposeAsTool
\* block, and propagation on every call
ShouldPropagate_onlyWithTool(isUpdate, exposeAsTool) == ~isUpdate /\ exposeAsTool
ShouldPropagate_always(isUpdate, exposeAsTool) == TRUE

\* whether the registrar calls propagateWidgetResourcesToSessions
ShouldPropagate(isUpdate, exposeAsTool) == ~isUpdate

\* exposeAsTool ?? widgetMetadata?.exposeAsTool ?? true
ResolveExposeAsTool(definition) ==
    LET widgetMetadata == IF Has(definition.meta, "mcp-use/widget")
                          THEN definition.meta["mcp-use/widget"] ELSE EmptyMap
    IN  IF definition.exposeAsTool # "unset" THEN definition.exposeAsTool = "true"
        ELSE IF Has(widgetMetadata, "exposeAsTool") THEN widgetMetadata.exposeAsTool
        ELSE TRUE

\* the switch over enrichedDefinition.type
ResourceUriOf(definition, b) ==
    CASE definition.type = "externalUrl" -> generateWidgetUri(definition.widget, b, "")
      [] definition.type = "rawHtml"     -> generateWidgetUri(definition.name, b, "")
      [] definition.type = "remoteDom"   -> generateWidgetUri(definition.name, b, "")
      [] definition.type = "appsSdk"     -> generateWidgetUri(definition.name, b, ".html")
      [] definition.type = "mcpApps"     -> generateWidgetUri(definition.name, b, ".html")

MimeTypeOf(definition) ==
    CASE definition.type = "externalUrl" -> "text/uri-list"
      [] definition.type = "rawHtml"     -> "text/html"
      [] definition.type = "remoteDom"   -> "application/vnd.mcp-ui.remote-dom+javascript"
      [] definition.type = "appsSdk"     -> "text/html+skybridge"
      [] definition.type = "mcpApps"     -> "text/html;profile=mcp-app"

\* the registrar's switch as a whole: resourceUri and mimeType, or the thrown
\* Error("Unsupported UI resource type ...")
ResolveInRegistrar(definition, b) ==
    IF definition.type \in WidgetTypes
    THEN [threw |-> FALSE, uri |-> ResourceUriOf(definition, b),
          mimeType |-> MimeTypeOf(definition)]
    ELSE [threw |-> TRUE, uri |-> Undefined, mimeType |-> Undefined]

\* faulty variant of ResourceMetaOf: the definition's own ui object is let
\* through
ResourceMetaOf_keepsAuthorUi(enrichedDefinition) ==
    LET resourceUiMeta == IF enrichedDefinition.type = "mcpApps"
                          THEN buildResourceUiMeta(enrichedDefinition) ELSE <<>>
        defMeta == enrichedDefinition.meta
        defMetaPublic == [k \in (DOMAIN defMeta) \ {"mcp-use/widget"} |-> defMeta[k]]
    IN  (IF resourceUiMeta # <<>> THEN "ui" :> resourceUiMeta[1] ELSE EmptyMap)
            @@ defMetaPublic

\* the listing-level _meta of the resource and the resource template
ResourceMetaOf(enrichedDefinition) ==
    LET resourceUiMeta == IF enrichedDefinition.type = "mcpApps"
                          THEN buildResourceUiMeta(enrichedDefinition) ELSE <<>>
        defMeta == enrichedDefinition.meta
        defMetaPublic == [k \in (DOMAIN defMeta) \ {"mcp-use/widget", "ui"} |-> defMeta[k]]
    IN  (IF resourceUiMeta # <<>> THEN "ui" :> resourceUiMeta[1] ELSE EmptyMap)
            @@ defMetaPublic

\* toolMetadata of the widget's own tool
ToolMetadataOf(enrichedDefinition, resourceUri) ==
    IF enrichedDefinition.type = "appsSdk" /\ enrichedDefinition.appsSdkMetadata # <<>>
    THEN LET block == enrichedDefinition.appsSdkMetadata[1]
         IN  [k \in (DOMAIN block) \cap AppsSdkToolFields |-> block[k]]
                 @@ ("openai/outputTemplate" :> resourceUri)
    ELSE IF enrichedDefinition.type = "mcpApps"
    THEN buildDualProtocolMetadata(enrichedDefinition, resourceUri, EmptyMap)
    ELSE EmptyMap

\* keys of the registration records that belong to widget `name`
ResourceKeysOf(map, name) == {k \in DOMAIN map : map[k].config.name = name}
TemplateKeysOf(map, name) == {k \in DOMAIN map : map[k].config.name = name \o "-dynamic"}
ToolKeysOf(map, name) == {k \in DOMAIN map : k = name}
IdsAt(map, keys) == {map[k].id : k \in keys}

\* a callback closure: it captures enrichedDefinition and resourceUri
Closure(enrichedDefinition, resourceUri) ==
    [definition |-> enrichedDefinition, resourceUri |-> resourceUri]

\* server.resource(definition, callback): registrations.resources.set(key, ...)
ServerResource(map, id, name, uri, title, mimeType, meta, callback) ==
    ((name \o ":" \o uri) :>
        [id |-> id,
         config |-> [name |-> name, uri |-> uri, title |-> title,
                     mimeType |-> mimeType, meta |-> meta],
         handler |-> callback]) @@ map

\* server.resourceTemplate(definition, callback)
ServerResourceTemplate(map, id, name, uriTemplate, title, mimeType, meta, callback) ==
    (name :>
        [id |-> id,
         config |-> [name |-> name, uriTemplate |-> uriTemplate, title |-> title,
                     mimeType |-> mimeType, meta |-> meta],
         handler |-> callback]) @@ map

\* server.tool(definition, callback) and server.addWidgetTool(definition, callback)
ServerTool(map, id, name, title, meta, widget, callback) ==
    (name :>
        [id |-> id,
         config |-> [name |-> name, title |-> title, meta |-> meta, widget |-> widget],
         handler |-> callback]) @@ map

NoCall == [kind |-> "none"]
NoResult == [kind |-> "none"]
NoInput == [kind |-> "none"]

\* faulty variant of PatchExistingTools: every tool is patched, whatever
\* widget it references
PatchExistingTools_patchesAll(map, enrichedDefinition, b) ==
    LET outputTemplate == "ui://widget/" \o enrichedDefinition.name
                              \o getBuildIdPart(b) \o ".html"
    IN  [t \in DOMAIN map |->
            [map[t] EXCEPT !.config.meta =
                buildDualProtocolMetadata(enrichedDefinition, outputTemplate, @)]]

\* faulty variant of PatchExistingTools: the tools of other widgets are lost
PatchExistingTools_dropsOthers(map, enrichedDefinition, b) ==
    LET outputTemplate == "ui://widget/" \o enrichedDefinition.name
                              \o getBuildIdPart(b) \o ".html"
        mine == {t \in DOMAIN map : map[t].config.widget = <<enrichedDefinition.name>>}
    IN  [t \in mine |->
            [map[t] EXCEPT !.config.meta =
                buildDualProtocolMetadata(enrichedDefinition, outputTemplate, @)]]

\* the mcpApps patch loop over server.registrations.tools
PatchExistingTools(map, enrichedDefinition, b) ==
    LET outputTemplate == "ui://widget/" \o enrichedDefinition.name
                              \o getBuildIdPart(b) \o ".html"
    IN  [t \in DOMAIN map |->
            IF map[t].config.widget = <<enrichedDefinition.name>>
            THEN [map[t] EXCEPT !.config.meta =
                     buildDualProtocolMetadata(enrichedDefinition, outputTemplate, @)]
            ELSE map[t]]

\* A props/schema source is [present, isObject, isZod, hasSchemaKey, type,
\* properties, required]: present is its truthiness, isZod is instanceof
\* z.ZodObject, hasSchemaKey is an own "$schema" property, type is "" when
\* there is none, properties is optional and maps a property name to its
\* declaration [type], required is the set of names of its required list.

\* enrichedDefinition.props || widgetMetadataSchema?.props ||
\* widgetMetadataSchema?.inputs || widgetMetadataSchema?.schema
RECURSIVE FirstTruthy(_)
FirstTruthy(candidates) ==
    IF Len(candidates) = 1 \/ Head(candidates).present THEN Head(candidates)
    ELSE FirstTruthy(Tail(candidates))

PropsOrSchema(props, widgetMetadataSchema) ==
    FirstTruthy(<<props, widgetMetadataSchema.props, widgetMetadataSchema.inputs,
                  widgetMetadataSchema.schema>>)

IsZodSchema(propsOrSchema) ==
    propsOrSchema.present /\ propsOrSchema.isObject /\ propsOrSchema.isZod

IsJsonSchema(propsOrSchema) ==
    /\ propsOrSchema.present /\ propsOrSchema.isObject /\ ~IsZodSchema(propsOrSchema)
    /\ \/ propsOrSchema.hasSchemaKey
       \/ propsOrSchema.type = "object" /\ propsOrSchema.properties # <<>>

\* widget-helpers.ts convertPropsToInputs(props): the inputs of a legacy props map
convertPropsToInputs(props) == [convertedFrom |-> props]

\* Object.entries(jsonSchema.properties).map(...): one input per property
JsonSchemaInputs(jsonSchema) ==
    LET properties == jsonSchema.properties[1]
    IN  [name \in DOMAIN properties |->
            [type |-> IF properties[name].type # "" THEN properties[name].type
                      ELSE "string",
             required |-> name \in jsonSchema.required]]

\* faulty variant of ResolveToolSchema: the JSON schema shape is looked for
\* first, on a typed schema too
ResolveToolSchema_jsonFirst(propsOrSchema) ==
    IF /\ propsOrSchema.present /\ propsOrSchema.isObject
       /\ \/ propsOrSchema.hasSchemaKey
          \/ propsOrSchema.type = "object" /\ propsOrSchema.properties # <<>>
    THEN [branch |-> "jsonSchema", schema |-> <<>>,
          inputs |-> IF propsOrSchema.properties # <<>>
                     THEN <<JsonSchemaInputs(propsOrSchema)>> ELSE <<>>]
    ELSE IF IsZodSchema(propsOrSchema)
    THEN [branch |-> "schema", schema |-> <<propsOrSchema>>, inputs |-> <<>>]
    ELSE IF propsOrSchema.present
    THEN [branch |-> "legacy", schema |-> <<>>,
          inputs |-> <<convertPropsToInputs(propsOrSchema)>>]
    ELSE [branch |-> "none", schema |-> <<>>, inputs |-> <<>>]

\* the schema and the inputs put on toolDefinition, and the branch taken
ResolveToolSchema(propsOrSchema) ==
    IF IsZodSchema(propsOrSchema)
    THEN [branch |-> "schema", schema |-> <<propsOrSchema>>, inputs |-> <<>>]
    ELSE IF IsJsonSchema(propsOrSchema)
    THEN [branch |-> "jsonSchema", schema |-> <<>>,
          inputs |-> IF propsOrSchema.properties # <<>>
                     THEN <<JsonSchemaInputs(propsOrSchema)>> ELSE <<>>]
    ELSE IF propsOrSchema.present
    THEN [branch |-> "legacy", schema |-> <<>>,
          inputs |-> <<convertPropsToInputs(propsOrSchema)>>]
    ELSE [branch |-> "none", schema |-> <<>>, inputs |-> <<>>]

\* faulty variant of StoresDefinition: the definition of every variant is stored
StoresDefinition_any(type) == TRUE

\* the variants whose definition is written to server.widgetDefinitions, before
\* the switch over the variant
StoresDefinition(type) == type \in {"appsSdk", "mcpApps"}

\* faulty variant of StoredEntry: the whole definition is kept with the entry
StoredEntry_full(enrichedDefinition) ==
    [k \in {"widgetType", "metadata", "mcp-use/fullDefinition"} |->
        CASE k = "widgetType" -> enrichedDefinition.type
          [] k = "metadata" -> enrichedDefinition.metadata
          [] OTHER -> enrichedDefinition]

\* the entry kept in server.widgetDefinitions
StoredEntry(enrichedDefinition) ==
    [widgetType |-> enrichedDefinition.type,
     metadata |-> IF enrichedDefinition.type = "mcpApps"
                  THEN enrichedDefinition.metadata ELSE EmptyMap]

\* the registrations of one behaviour: one more in a behaviour that follows
\* two widget names and nothing else
RegBudget == IF input.kind = "names" THEN MaxRegs + 1 ELSE MaxRegs

\* faulty variant of RegistrationSteps: the tool block comes before the
\* resource block
RegistrationSteps_toolFirst(isUpdate, createsTemplate, propagates, createsTool, updatesTool) ==
    (IF createsTool THEN <<"tool">>
     ELSE IF updatesTool THEN <<"toolUpdate">> ELSE <<>>)
    \o (IF ~isUpdate THEN <<"resource">> ELSE <<"resourceUpdate">>)
    \o (IF createsTemplate THEN <<"resourceTemplate">> ELSE <<>>)
    \o (IF propagates THEN <<"propagate">> ELSE <<>>)

\* the registrar's calls on the server in the order the function body makes
\* them: server.resource, server.resourceTemplate (or the update of the
\* existing records), propagateWidgetResourcesToSessions, and the tool block
RegistrationSteps(isUpdate, createsTemplate, propagates, createsTool, updatesTool) ==
    (IF ~isUpdate THEN <<"resource">> ELSE <<"resourceUpdate">>)
    \o (IF createsTemplate THEN <<"resourceTemplate">> ELSE <<>>)
    \o (IF propagates THEN <<"propagate">> ELSE <<>>)
    \o (IF createsTool THEN <<"tool">>
        ELSE IF updatesTool THEN <<"toolUpdate">> ELSE <<>>)

uiResourceRegistration(definition) ==
    LET serverOrigin == IF serverBaseUrl # "" THEN UrlOrigin(serverBaseUrl) ELSE ""
        enrichedDefinition == enrichDefinitionWithServerOrigin(definition, serverOrigin)
        name == enrichedDefinition.name
        type == enrichedDefinition.type
        isUpdate == name \in DOMAIN widgetDefinitions
        isDual == type \in {"appsSdk", "mcpApps"}
        widgetDefinitions1 == IF StoresDefinition(type)
                              THEN (name :> StoredEntry(enrichedDefinition)) @@ widgetDefinitions
                              ELSE widgetDefinitions
        tools1 == IF StoresDefinition(type) /\ type = "mcpApps"
                  THEN PatchExistingTools(tools, enrichedDefinition, buildId)
                  ELSE tools
    IN
    /\ regCount < RegBudget
    /\ regCount' = regCount + 1
    /\ lastResult' = NoResult
    /\ UNCHANGED <<serverBaseUrl, buildId, hasAddWidgetTool, sessions, input, output>>
    /\ IF type \notin WidgetTypes
       THEN \* default: throw new Error("Unsupported UI resource type ...")
            \* the store write and the patch loop come before the switch
            /\ widgetDefinitions' = widgetDefinitions1
            /\ tools' = tools1
            /\ lastCall' = [kind |-> "threw", name |-> name, type |-> type,
                            resourceListChanged |-> NoNotifications,
                            toolListChanged |-> NoNotifications,
                            scheduled |-> FALSE]
            /\ UNCHANGED <<resources, resourceTemplates, dispatch, timers,
                           nextId, latest>>
       ELSE
       LET resourceUri == ResourceUriOf(enrichedDefinition, buildId)
           mimeType == MimeTypeOf(enrichedDefinition)
           resourceMeta == ResourceMetaOf(enrichedDefinition)
           resourceReadCallback == Closure(enrichedDefinition, resourceUri)
           templateReadCallback == Closure(enrichedDefinition, resourceUri)
           toolCallback == Closure(enrichedDefinition, resourceUri)
           \* resource and resource template
           resourceKey == name \o ":" \o resourceUri
           resourceTemplateKey == name \o "-dynamic"
           uriTemplate == "ui://widget/" \o name \o getBuildIdPart(buildId) \o "-{id}.html"
           createsTemplate == ~isUpdate /\ isDual
           resources1 ==
               IF ~isUpdate
               THEN ServerResource(resources, nextId, name, resourceUri,
                                   enrichedDefinition.title, mimeType, resourceMeta,
                                   resourceReadCallback)
               ELSE IF resourceKey \in DOMAIN resources
               THEN [resources EXCEPT ![resourceKey].config.meta = resourceMeta,
                                      ![resourceKey].handler = resourceReadCallback]
               ELSE resources
           resourceTemplates1 ==
               IF createsTemplate
               THEN ServerResourceTemplate(resourceTemplates, nextId + 1,
                                           resourceTemplateKey, uriTemplate,
                                           enrichedDefinition.title, mimeType,
                                           resourceMeta, templateReadCallback)
               ELSE IF isUpdate /\ resourceTemplateKey \in DOMAIN resourceTemplates
               THEN [resourceTemplates EXCEPT
                        ![resourceTemplateKey].config.meta = resourceMeta,
                        ![resourceTemplateKey].handler = templateReadCallback]
               ELSE resourceTemplates
           exposeAsTool == ResolveExposeAsTool(enrichedDefinition)
           resourceListChanged == IF ShouldPropagate(isUpdate, exposeAsTool)
                                  THEN propagateWidgetResourcesToSessions(name)
                                  ELSE NoNotifications
           \* tool
           toolMetadata == ToolMetadataOf(enrichedDefinition, resourceUri)
           updatesTool == exposeAsTool /\ isUpdate /\ name \in DOMAIN tools1
           createsTool == exposeAsTool /\ ~isUpdate
           tools2 ==
               IF updatesTool
               THEN [tools1 EXCEPT ![name].config.title = enrichedDefinition.title,
                                   ![name].config.meta = toolMetadata,
                                   ![name].handler = toolCallback]
               ELSE IF createsTool
               THEN ServerTool(tools1, nextId + 2, name, enrichedDefinition.title,
                               toolMetadata, <<>>, toolCallback)
               ELSE tools1
           scheduled == createsTool /\ SchedulesDelayedNotification(hasAddWidgetTool)
           dispatch1 ==
               (IF ~isUpdate THEN ("resource:" \o name) :> resourceReadCallback ELSE EmptyMap)
               @@ (IF createsTemplate THEN ("template:" \o name) :> templateReadCallback
                   ELSE EmptyMap)
               @@ (IF createsTool THEN ("tool:" \o name) :> toolCallback ELSE EmptyMap)
               @@ dispatch
       IN
       /\ widgetDefinitions' = widgetDefinitions1
       /\ resources' = resources1
       /\ resourceTemplates' = resourceTemplates1
       /\ tools' = tools2
       /\ dispatch' = dispatch1
       /\ timers' = IF scheduled THEN timers + 1 ELSE timers
       /\ nextId' = nextId + 3
       /\ latest' = (name :> enrichedDefinition) @@ latest
       /\ lastCall' =
            [kind |-> "returned", name |-> name, type |-> type,
             definition |-> definition,
             isUpdate |-> isUpdate,
             registeredBefore |-> name \in DOMAIN latest,
             changed |-> name \in DOMAIN latest /\ latest[name] # enrichedDefinition,
             exposeAsTool |-> exposeAsTool,
             resourceCalls |-> IF ~isUpdate THEN 1 ELSE 0,
             templateCalls |-> IF createsTemplate THEN 1 ELSE 0,
             toolCalls |-> IF createsTool THEN 1 ELSE 0,
             prevResourceIds |-> IdsAt(resources, ResourceKeysOf(resources, name)),
             prevTemplateIds |-> IdsAt(resourceTemplates,
                                       TemplateKeysOf(resourceTemplates, name)),
             prevToolIds |-> IdsAt(tools, ToolKeysOf(tools, name)),
             resourceListChanged |-> resourceListChanged,
             toolListChanged |-> IF updatesTool THEN NotifyLoop ELSE NoNotifications,
             notifiedTools |-> updatesTool,
             notifyError |-> updatesTool /\ NotifyRun.error,
             steps |-> RegistrationSteps(isUpdate, createsTemplate,
                                         ShouldPropagate(isUpdate, exposeAsTool),
                                         createsTool, updatesTool),
             scheduled |-> scheduled]

----------------------------------------------------------------------------
(* Handlers *)

\* faulty variant of getLatestDefinition: the definition is looked up by name
\* among the definitions registered last
getLatestDefinition_byName(closure) ==
    IF closure.definition.name \in DOMAIN latest
    THEN latest[closure.definition.name]
    ELSE closure.definition

\* getLatestDefinition of the closure: stored?.["mcp-use/fullDefinition"] ?? enrichedDefinition
getLatestDefinition(closure) ==
    LET name == closure.definition.name
    IN  IF name \in DOMAIN widgetDefinitions
           /\ Has(widgetDefinitions[name], "mcp-use/fullDefinition")
        THEN widgetDefinitions[name]["mcp-use/fullDefinition"]
        ELSE closure.definition

\* the resource built by createWidgetUIResource(latestDef, ...) is identified
\* by the definition it was built from
resourceReadCallback(closure) ==
    LET latestDef == getLatestDefinition(closure)
    IN  [kind |-> "resourceRead", name |-> closure.definition.name,
         definition |-> latestDef, uri |-> closure.resourceUri]

templateReadCallback(closure, uri) ==
    LET latestDef == getLatestDefinition(closure)
    IN  [kind |-> "templateRead", name |-> closure.definition.name,
         definition |-> latestDef, uri |-> uri]

Params == {[message |-> "test"]}

\* An author-supplied value that may be a function of the call parameters is
\* [isFunction, result]: the value itself, or what the function returns apart
\* from the parameters it passes on.  A tool output is [content,
\* structuredContent], both optional; a content is [isArray, items].

\* the result of an author's function: it answers with the caller's message
CallAuthorFunction(result, params) ==
    [result EXCEPT !.structuredContent = <<[query |-> params.message]>>]

\* typeof v === "function" ? v(params) : v, for a toolOutput
ToolOutputOf(toolOutput, params) ==
    IF toolOutput.isFunction THEN CallAuthorFunction(toolOutput.result, params)
    ELSE toolOutput.result

generateToolOutput(definition, params, displayName) ==
    [content |-> <<[isArray |-> TRUE,
                    items |-> <<[type |-> "text", text |-> displayName]>>]>>,
     structuredContent |->
        IF Has(definition, "structuredContent")
        THEN IF definition.structuredContent.isFunction
             THEN <<[query |-> params.message]>>
             ELSE <<definition.structuredContent.result>>
        ELSE <<>>]

\* faulty variant of toolCallback: the Apps SDK / MCP Apps branch embeds the
\* widget resource as the legacy branch does
toolCallback_embedsResource(closure, params) ==
    LET enrichedDefinition == closure.definition
        displayName == IF enrichedDefinition.title # "" THEN enrichedDefinition.title
                       ELSE enrichedDefinition.name
    IN  [kind |-> "toolCall", name |-> enrichedDefinition.name, isError |-> FALSE,
         definition |-> enrichedDefinition,
         content |-> <<[type |-> "text", text |-> "Displaying " \o displayName],
                       [type |-> "resource", text |-> ""]>>,
         structuredContent |-> <<>>]

toolCallback(closure, params) ==
    LET enrichedDefinition == closure.definition
        displayName == IF enrichedDefinition.title # "" THEN enrichedDefinition.title
                       ELSE enrichedDefinition.name
        toolOutputResult ==
            IF Has(enrichedDefinition, "toolOutput")
            THEN ToolOutputOf(enrichedDefinition.toolOutput, params)
            ELSE generateToolOutput(enrichedDefinition, params, displayName)
        \* toolOutputResult?.content || [{type: "text", text: displayName}]
        content == IF toolOutputResult.content # <<>>
                   THEN toolOutputResult.content[1]
                   ELSE [isArray |-> TRUE,
                         items |-> <<[type |-> "text", text |-> displayName]>>]
        \* Array.isArray(content) ? content : [content]
        contentArray == IF content.isArray THEN content.items ELSE <<content.items[1]>>
    IN  IF enrichedDefinition.type \in {"appsSdk", "mcpApps"}
        THEN [kind |-> "toolCall", name |-> enrichedDefinition.name, isError |-> FALSE,
              definition |-> enrichedDefinition,
              content |-> contentArray,
              \* toolOutputResult?.structuredContent ?? params
              structuredContent |-> IF toolOutputResult.structuredContent # <<>>
                                    THEN toolOutputResult.structuredContent
                                    ELSE <<params>>]
        ELSE [kind |-> "toolCall", name |-> enrichedDefinition.name, isError |-> FALSE,
              definition |-> enrichedDefinition,
              content |-> <<[type |-> "text", text |-> "Displaying " \o displayName],
                            [type |-> "resource", text |-> ""]>>,
              structuredContent |-> <<>>]

\* a URI minted for widget `name` that the resource template matches
MintedUri(name) == generateUniqueWidgetUri(name, buildId, ".html", "abc123")

Vias == {"dispatch", "registration"}

\* resources/read of the widget's resource, through the callback bound at
\* creation or through the registration record's current handler
ReadResource(name, via) ==
    /\ \/ /\ via = "dispatch"
          /\ ("resource:" \o name) \in DOMAIN dispatch
          /\ lastResult' = [resourceReadCallback(dispatch["resource:" \o name])
                               EXCEPT !.kind = "resourceRead"]
       \/ /\ via = "registration"
          /\ \E k \in ResourceKeysOf(resources, name) :
                lastResult' = resourceReadCallback(resources[k].handler)
    /\ lastCall' = NoCall
    /\ UNCHANGED <<serverBaseUrl, buildId, hasAddWidgetTool, widgetDefinitions,
                   resources, resourceTemplates, tools, sessions, dispatch, timers,
                   nextId, latest, regCount, input, output>>

ReadTemplate(name, via) ==
    /\ \/ /\ via = "dispatch"
          /\ ("template:" \o name) \in DOMAIN dispatch
          /\ lastResult' = templateReadCallback(dispatch["template:" \o name],
                                                MintedUri(name))
       \/ /\ via = "registration"
          /\ \E k \in TemplateKeysOf(resourceTemplates, name) :
                lastResult' = templateReadCallback(resourceTemplates[k].handler,
                                                   MintedUri(name))
    /\ lastCall' = NoCall
    /\ UNCHANGED <<serverBaseUrl, buildId, hasAddWidgetTool, widgetDefinitions,
                   resources, resourceTemplates, tools, sessions, dispatch, timers,
                   nextId, latest, regCount, input, output>>

\* tools/call: a name with no tool registration yields an error result
CallTool(name, via, params) ==
    /\ IF name \notin DOMAIN tools
       THEN lastResult' = [kind |-> "toolCall", name |-> name, isError |-> TRUE,
                           text |-> "Tool '" \o name \o "' not found"]
       ELSE \/ /\ via = "dispatch"
               /\ ("tool:" \o name) \in DOMAIN dispatch
               /\ lastResult' = toolCallback(dispatch["tool:" \o name], params)
            \/ /\ via = "registration"
               /\ lastResult' = toolCallback(tools[name].handler, params)
    /\ lastCall' = NoCall
    /\ UNCHANGED <<serverBaseUrl, buildId, hasAddWidgetTool, widgetDefinitions,
                   resources, resourceTemplates, tools, sessions, dispatch, timers,
                   nextId, latest, regCount, input, output>>

ManualToolName == "t"
ManualToolMeta == "custom" :> "x"
ManualHandler == [manual |-> TRUE]

\* server.tool({name, widget: {name: widgetName}}, handler) by the application,
\* before the widgets are registered
RegisterManualTool(widgetName) ==
    /\ ManualToolName \notin DOMAIN tools
    /\ regCount = 0
    /\ tools' = ServerTool(tools, nextId, ManualToolName, "", ManualToolMeta,
                           <<widgetName>>, ManualHandler)
    /\ nextId' = nextId + 1
    /\ lastCall' = NoCall
    /\ lastResult' = NoResult
    /\ UNCHANGED <<serverBaseUrl, buildId, hasAddWidgetTool, widgetDefinitions,
                   resources, resourceTemplates, sessions, dispatch, timers,
                   latest, regCount, input, output>>

\* the setTimeout(..., 50) callback of a first tool registration
TimerFire ==
    /\ timers > 0
    /\ timers' = timers - 1
    /\ lastResult' = [kind |-> "timer", toolListChanged |-> NotifyLoop,
                       error |-> NotifyRun.error]
    /\ lastCall' = NoCall
    /\ UNCHANGED <<serverBaseUrl, buildId, hasAddWidgetTool, widgetDefinitions,
                   resources, resourceTemplates, tools, sessions, dispatch,
                   nextId, latest, regCount, input, output>>

\* a client connects: server.sessions.set(id, session); session ids are
\* handed out in order
Connect(s) ==
    /\ s \notin DOMAIN sessions
    /\ s = Cardinality(DOMAIN sessions) + 1
    /\ sessions' = (s :> SessionKindOf(s)) @@ sessions
    /\ lastResult' = NoResult
    /\ lastCall' = NoCall
    /\ UNCHANGED <<serverBaseUrl, buildId, hasAddWidgetTool, widgetDefinitions,
                   resources, resourceTemplates, tools, dispatch, timers,
                   nextId, latest, regCount, input, output>>

\* a client goes away: server.sessions.delete(id); the most recent session
\* is the one that leaves
Disconnect(s) ==
    /\ s \in DOMAIN sessions
    /\ s = Cardinality(DOMAIN sessions)
    /\ sessions' = [t \in (DOMAIN sessions) \ {s} |-> sessions[t]]
    /\ lastResult' = NoResult
    /\ lastCall' = NoCall
    /\ UNCHANGED <<serverBaseUrl, buildId, hasAddWidgetTool, widgetDefinitions,
                   resources, resourceTemplates, tools, dispatch, timers,
                   nextId, latest, regCount, input, output>>

----------------------------------------------------------------------------
(* Inputs *)

LegacyExpose(b) == "mcp-use/widget" :> [exposeAsTool |-> b]
CspOf(csp) == "csp" :> csp
SdkBlock == [k \in {"openai/toolInvocation/invoking", "openai/widgetCSP"} |->
                IF k = "openai/widgetCSP" THEN [connect_domains |-> <<Cdn>>]
                ELSE "Loading..."]

\* the definitions registered in a behaviour
DefPool ==
    { MkDef("mcpApps", "w", "A", "unset", EmptyMap, EmptyMap, <<>>),
      MkDef("mcpApps", "w", "B", "unset", EmptyMap,
            CspOf([connectDomains |-> <<Cdn>>]), <<>>),
      MkDef("mcpApps", "w", "A", "false", LegacyExpose(TRUE),
            CspOf([frameDomains |-> <<Cdn>>, connectDomains |-> <<HostOrigin>>]), <<>>),
      MkDef("appsSdk", "w", "A", "unset", EmptyMap, EmptyMap, <<>>),
      MkDef("appsSdk", "w", "B", "false", EmptyMap, EmptyMap, <<SdkBlock>>),
      MkDef("rawHtml", "w", "A", "unset", EmptyMap, EmptyMap, <<>>),
      MkDef("rawHtml", "w", "B", "unset", LegacyExpose(FALSE), EmptyMap, <<>>),
      MkDef("externalUrl", "w", "A", "true", EmptyMap, EmptyMap, <<>>),
      MkDef("remoteDom", "w", "A", "false", EmptyMap, EmptyMap, <<>>),
      MkDef("carousel", "w", "A", "unset", EmptyMap, EmptyMap, <<>>),
      MkDef("mcpApps", "v", "A", "unset", EmptyMap, EmptyMap, <<>>) }

\* the servers a behaviour runs on: serverBaseUrl, buildId, addWidgetTool
ServerPool ==
    { <<"", "", TRUE>>,
      <<"https://host:3000/mcp", "b1", FALSE>> }

----------------------------------------------------------------------------
(* Specification *)

Init ==
    /\ \E srv \in ServerPool :
          /\ serverBaseUrl = srv[1]
          /\ buildId = srv[2]
          /\ hasAddWidgetTool = srv[3]
    /\ widgetDefinitions = EmptyMap
    /\ resources = EmptyMap
    /\ resourceTemplates = EmptyMap
    /\ tools = EmptyMap
    /\ sessions = EmptyMap
    /\ dispatch = EmptyMap
    /\ timers = 0
    /\ nextId = 1
    /\ latest = EmptyMap
    /\ lastCall = NoCall
    /\ lastResult = NoResult
    /\ regCount = 0
    /\ input = NoInput
    /\ output = NoResult

Register == \E definition \in DefPool : uiResourceRegistration(definition)
Read == \E name \in Names, via \in Vias : ReadResource(name, via)
ReadDynamic == \E name \in Names, via \in Vias : ReadTemplate(name, via)
Call == \E name \in Names, via \in Vias, params \in Params : CallTool(name, via, params)
ManualTool == RegisterManualTool("w")
SessionOpen == \E s \in SessionIds : Connect(s)
SessionClose == \E s \in SessionIds : Disconnect(s)

Next ==
    \/ Register
    \/ Read
    \/ ReadDynamic
    \/ Call
    \/ TimerFire
    \/ ManualTool
    \/ SessionOpen
    \/ SessionClose

Spec == Init /\ [][Next]_vars

\* Hot updates of widget files: a name that is registered again keeps its
\* variant
RegisterSameVariant ==
    \E definition \in DefPool :
        /\ definition.name \in DOMAIN latest =>
              definition.type = latest[definition.name].type
        /\ uiResourceRegistration(definition)

NextHmr ==
    \/ RegisterSameVariant
    \/ Read
    \/ ReadDynamic
    \/ Call
    \/ TimerFire
    \/ ManualTool
    \/ SessionOpen
    \/ SessionClose

SpecHmr == Init /\ [][NextHmr]_vars

\* Two widget names on one server: each is registered and registered again
\* next to the records of the other and to a tool the application registered
NamesPool ==
    { MkDef("mcpApps", "w", "A", "unset", EmptyMap, EmptyMap, <<>>),
      MkDef("mcpApps", "w", "B", "unset", EmptyMap,
            CspOf([connectDomains |-> <<Cdn>>]), <<>>),
      MkDef("appsSdk", "w", "B", "false", EmptyMap, EmptyMap, <<SdkBlock>>),
      MkDef("rawHtml", "w", "A", "unset", EmptyMap, EmptyMap, <<>>),
      MkDef("mcpApps", "v", "A", "unset", EmptyMap, EmptyMap, <<>>),
      MkDef("appsSdk", "v", "B", "unset", EmptyMap, EmptyMap, <<SdkBlock>>) }

InitNames ==
    /\ \E srv \in ServerPool :
          /\ serverBaseUrl = srv[1]
          /\ buildId = srv[2]
          /\ hasAddWidgetTool = srv[3]
    /\ widgetDefinitions = EmptyMap
    /\ resources = EmptyMap
    /\ resourceTemplates = EmptyMap
    /\ tools = EmptyMap
    /\ sessions = EmptyMap
    /\ dispatch = EmptyMap
    /\ timers = 0
    /\ nextId = 1
    /\ latest = EmptyMap
    /\ lastCall = NoCall
    /\ lastResult = NoResult
    /\ regCount = 0
    /\ input = [kind |-> "names"]
    /\ output = NoResult

RegisterNamed == \E definition \in NamesPool : uiResourceRegistration(definition)

NextNames ==
    \/ RegisterNamed
    \/ ManualTool

SpecNames == InitNames /\ [][NextNames]_vars

TypeOK ==
    /\ regCount \in 0..MaxRegs
    /\ timers \in 0..MaxRegs
    /\ DOMAIN sessions \subseteq SessionIds

----------------------------------------------------------------------------
(* The CSP helpers applied on their own *)

CspValues == {<<>>, <<Cdn>>, <<Cdn, HostOrigin>>, <<HostOrigin, Cdn>>, NonSequence}

CspInputs ==
    UNION { [fields -> CspValues] :
                fields \in {fs \in SUBSET CamelFields : Cardinality(fs) <= MaxCspFields} }

HelperDefs ==
    { MkDef("mcpApps", "w", "A", "unset", EmptyMap, CspOf(csp), <<>>) : csp \in CspInputs }
    \cup { MkDef("mcpApps", "w", "A", "unset", EmptyMap, EmptyMap, <<>>) }

InitCsp ==
    /\ serverBaseUrl = ""
    /\ buildId = ""
    /\ hasAddWidgetTool = TRUE
    /\ widgetDefinitions = EmptyMap
    /\ resources = EmptyMap
    /\ resourceTemplates = EmptyMap
    /\ tools = EmptyMap
    /\ sessions = EmptyMap
    /\ dispatch = EmptyMap
    /\ timers = 0
    /\ nextId = 1
    /\ latest = EmptyMap
    /\ lastCall = NoCall
    /\ lastResult = NoResult
    /\ regCount = 0
    /\ input \in HelperDefs
    /\ output = NoResult

\* buildResourceUiMeta(input), together with the Apps SDK fragment it reads
ApplyBuildResourceUiMeta ==
    /\ output = NoResult
    /\ output' = [kind |-> "buildResourceUiMeta",
                  fragment |-> AppsSdkBuildResourceMetadata(input),
                  ui |-> buildResourceUiMeta(input)]
    /\ UNCHANGED <<serverBaseUrl, buildId, hasAddWidgetTool, widgetDefinitions,
                   resources, resourceTemplates, tools, sessions, dispatch, timers,
                   nextId, latest, lastCall, lastResult, regCount, input>>

NextCsp == ApplyBuildResourceUiMeta

SpecCsp == InitCsp /\ [][NextCsp]_vars

----------------------------------------------------------------------------
(* enrichDefinitionWithServerOrigin applied on its own *)

\* the registrar's variables on a server nothing has been registered on
RegistrarIdle ==
    /\ serverBaseUrl = ""
    /\ buildId = ""
    /\ hasAddWidgetTool = TRUE
    /\ widgetDefinitions = EmptyMap
    /\ resources = EmptyMap
    /\ resourceTemplates = EmptyMap
    /\ tools = EmptyMap
    /\ sessions = EmptyMap
    /\ dispatch = EmptyMap
    /\ timers = 0
    /\ nextId = 1
    /\ latest = EmptyMap
    /\ lastCall = NoCall
    /\ lastResult = NoResult
    /\ regCount = 0

registrarVars == <<serverBaseUrl, buildId, hasAddWidgetTool, widgetDefinitions,
                   resources, resourceTemplates, tools, sessions, dispatch, timers,
                   nextId, latest, lastCall, lastResult, regCount>>

InjectedFields == {"resourceDomains", "connectDomains", "baseUriDomains"}
EnrichFields == InjectedFields \cup {"frameDomains"}

DomainLists == {<<>>, <<Cdn>>, <<HostOrigin>>, <<Cdn, HostOrigin>>, <<HostOrigin, Cdn>>,
                <<HostOrigin, Cdn, HostOrigin>>}

EnrichCsps ==
    UNION { [fields -> DomainLists] :
                fields \in {fs \in SUBSET EnrichFields : Cardinality(fs) <= MaxCspFields} }

EnrichDefs ==
    { MkDef("mcpApps", "w", "A", "unset", EmptyMap, CspOf(csp), <<>>) : csp \in EnrichCsps }
    \cup { MkDef("mcpApps", "kanban", "A", "unset", EmptyMap, EmptyMap, <<>>),
           MkDef("mcpApps", "w", "A", "unset", EmptyMap, "prefersBorder" :> TRUE, <<>>),
           MkDef("mcpApps", "w", "A", "unset", LegacyExpose(TRUE),
                 [k \in {"csp", "prefersBorder", "domain"} |->
                     CASE k = "csp" -> [frameDomains |-> <<Cdn>>,
                                        scriptDirectives |-> <<"'unsafe-eval'">>,
                                        styleDirectives |-> <<"'unsafe-inline'">>,
                                        connectDomains |-> <<Cdn>>]
                       [] k = "prefersBorder" -> <<TRUE>>
                       [] OTHER -> <<"widgets.example">>],
                 <<>>),
           MkDef("appsSdk", "w", "A", "unset", EmptyMap, EmptyMap, <<SdkBlock>>),
           MkDef("rawHtml", "w", "A", "unset", EmptyMap, EmptyMap, <<>>) }

\* serverOrigin: null ("") or the origin of server.serverBaseUrl
Origins == {"", HostOrigin}

InitEnrich ==
    /\ RegistrarIdle
    /\ input \in [definition : EnrichDefs, serverOrigin : Origins]
    /\ output = NoResult

\* enrichDefinitionWithServerOrigin applied once and applied to its own
\* result, and the resource _meta the registrar derives from the result
ApplyEnrich ==
    /\ output = NoResult
    /\ LET once == enrichDefinitionWithServerOrigin(input.definition, input.serverOrigin)
       IN  output' = [kind |-> "enrich",
                      once |-> once,
                      twice |-> enrichDefinitionWithServerOrigin(once, input.serverOrigin),
                      resourceMeta |-> ResourceMetaOf(once)]
    /\ UNCHANGED <<registrarVars, input>>

NextEnrich == ApplyEnrich

SpecEnrich == InitEnrich /\ [][NextEnrich]_vars

----------------------------------------------------------------------------
(* URI and MIME type resolution applied on its own *)

UnknownType == "carousel"
BuildIds == {"", "b1"}

\* what a resolution reads of a definition: the variant, the name, the widget
\* it shows, and the href / url properties an external-URL definition may have
UriDefs ==
    [type : WidgetTypes \cup {UnknownType}, name : Names, widget : Names,
     href : {<<>>, <<"https://a.example">>}, url : {<<>>, <<"https://b.example">>}]

\* two definitions of one variant and one name, resolved under one build id
InitUri ==
    /\ RegistrarIdle
    /\ input \in {in \in [first : UriDefs, second : UriDefs, buildId : BuildIds] :
                      /\ in.first.type = in.second.type
                      /\ in.first.name = in.second.name}
    /\ output = NoResult

ApplyResolve ==
    /\ output = NoResult
    /\ output' = [kind |-> "resolve",
                  helper |-> <<getResourceUriAndMimeType(input.first, input.buildId),
                               getResourceUriAndMimeType(input.second, input.buildId)>>,
                  registrar |-> <<ResolveInRegistrar(input.first, input.buildId),
                                  ResolveInRegistrar(input.second, input.buildId)>>]
    /\ UNCHANGED <<registrarVars, input>>

NextUri == ApplyResolve

SpecUri == InitUri /\ [][NextUri]_vars

----------------------------------------------------------------------------
(* toolCallback applied on its own *)

CallParams == {[message |-> "test"], [message |-> "other"]}

TextItem(text) == [type |-> "text", text |-> text]
AuthorObject == [total |-> "3"]

\* the toolOutput values of a definition
ToolOutputs ==
    { [isFunction |-> FALSE,
       result |-> [content |-> <<[isArray |-> TRUE, items |-> <<TextItem("Summary")>>]>>,
                   structuredContent |-> <<>>]],
      [isFunction |-> FALSE,
       result |-> [content |-> <<>>, structuredContent |-> <<AuthorObject>>]],
      [isFunction |-> FALSE,
       result |-> [content |-> <<[isArray |-> TRUE,
                                  items |-> <<TextItem("Summary"), TextItem("Details")>>]>>,
                   structuredContent |-> <<AuthorObject>>]],
      [isFunction |-> TRUE,
       result |-> [content |-> <<[isArray |-> TRUE, items |-> <<TextItem("Summary")>>]>>,
                   structuredContent |-> <<>>]],
      [isFunction |-> FALSE,
       result |-> [content |-> <<[isArray |-> FALSE, items |-> <<TextItem("Summary")>>]>>,
                   structuredContent |-> <<AuthorObject>>]],
      [isFunction |-> FALSE,
       result |-> [content |-> <<[isArray |-> TRUE, items |-> <<>>]>>,
                   structuredContent |-> <<>>]] }

\* the structuredContent values of a definition
StructuredContents ==
    { [isFunction |-> FALSE, result |-> AuthorObject],
      [isFunction |-> TRUE, result |-> AuthorObject] }

WithToolOutput(definition) ==
    {definition} \cup {("toolOutput" :> t) @@ definition : t \in ToolOutputs}
WithStructuredContent(definition) ==
    {definition} \cup {("structuredContent" :> c) @@ definition : c \in StructuredContents}

ToolCallDefs ==
    UNION { UNION { WithToolOutput(d) : d \in WithStructuredContent(
                        MkDef(type, "w", title, "unset", EmptyMap, EmptyMap, <<>>)) } :
                type \in {"appsSdk", "mcpApps", "rawHtml"}, title \in {"", "A"} }

InitToolCall ==
    /\ RegistrarIdle
    /\ input \in [definition : ToolCallDefs, params : CallParams]
    /\ output = NoResult

ApplyToolCallback ==
    /\ output = NoResult
    /\ output' = toolCallback(Closure(input.definition,
                                      ResourceUriOf(input.definition, buildId)),
                              input.params)
    /\ UNCHANGED <<registrarVars, input>>

NextToolCall == ApplyToolCallback

SpecToolCall == InitToolCall /\ [][NextToolCall]_vars

----------------------------------------------------------------------------
(* snakeCaseCspToCamelCase applied on its own *)

SnakeFields == {SnakeOf(f) : f \in CamelFields}
SnakeValues == {<<>>, <<Cdn>>, NonSequence}

\* the objects given to the converter: at most MaxCspFields keys, among the
\* six snake_case fields and a key the converter does not know
WcspObjects ==
    UNION { [keys -> SnakeValues] :
                keys \in {ks \in SUBSET (SnakeFields \cup {"extra_key"}) :
                              Cardinality(ks) <= MaxCspFields} }

\* undefined, a non-object, or an object
WcspInputs == {<<>>, <<NonObject>>} \cup {<<src>> : src \in WcspObjects}

InitSnake ==
    /\ RegistrarIdle
    /\ input \in [wcsp : WcspInputs]
    /\ output = NoResult

ApplySnakeCaseCspToCamelCase ==
    /\ output = NoResult
    /\ output' = [kind |-> "snakeToCamel",
                  result |-> snakeCaseCspToCamelCase(input.wcsp)]
    /\ UNCHANGED <<registrarVars, input>>

NextSnake == ApplySnakeCaseCspToCamelCase

SpecSnake == InitSnake /\ [][NextSnake]_vars

----------------------------------------------------------------------------

(* Schema resolution applied on its own *)

PropNames == {"query", "limit"}

PropertyMaps ==
    UNION { [names -> [type : {"", "number"}]] : names \in SUBSET PropNames }

AbsentSource ==
    [present |-> FALSE, isObject |-> FALSE, isZod |-> FALSE, hasSchemaKey |-> FALSE,
     type |-> "", properties |-> <<>>, required |-> {}]

\* a truthy value that is not an object
StringSource == [AbsentSource EXCEPT !.present = TRUE]

\* a legacy props map: an object with neither "$schema" nor type and properties
LegacyPropsSource == [AbsentSource EXCEPT !.present = TRUE, !.isObject = TRUE]

ObjectSources ==
    [present : {TRUE}, isObject : {TRUE}, isZod : {FALSE}, hasSchemaKey : BOOLEAN,
     type : {"", "object", "string"},
     properties : {<<>>} \cup {<<p>> : p \in PropertyMaps},
     required : SUBSET PropNames]

ZodSources ==
    [present : {TRUE}, isObject : {TRUE}, isZod : {TRUE}, hasSchemaKey : BOOLEAN,
     type : {"", "object"}, properties : {<<>>, <<[query |-> [type |-> ""]]>>},
     required : {{}}]

SchemaSources == {AbsentSource, StringSource} \cup ObjectSources \cup ZodSources

\* the deprecated fields of the definition's "mcp-use/widget" block
WidgetMetadataSchemas ==
    [props : {AbsentSource, LegacyPropsSource},
     inputs : {AbsentSource, LegacyPropsSource},
     schema : {AbsentSource, [LegacyPropsSource EXCEPT !.hasSchemaKey = TRUE]}]

InitSchema ==
    /\ RegistrarIdle
    /\ input \in [props : SchemaSources, widgetMetadataSchema : WidgetMetadataSchemas]
    /\ output = NoResult

ApplyResolveToolSchema ==
    /\ output = NoResult
    /\ LET propsOrSchema == PropsOrSchema(input.props, input.widgetMetadataSchema)
       IN  output' = [kind |-> "schema", source |-> propsOrSchema,
                      tool |-> ResolveToolSchema(propsOrSchema)]
    /\ UNCHANGED <<registrarVars, input>>

NextSchema == ApplyResolveToolSchema

SpecSchema == InitSchema /\ [][NextSchema]_vars

----------------------------------------------------------------------------

(* The listing metadata of a resource derived on its own *)

AuthorUi == [csp |-> [connectDomains |-> <<"https://author.example">>]]

\* what a definition's _meta holds under key k
DefMetaValue(k) ==
    CASE k = "mcp-use/widget"      -> [exposeAsTool |-> TRUE]
      [] k = "ui"                  -> AuthorUi
      [] k = "mcp-use/propsSchema" -> [type |-> "object"]
      [] OTHER                     -> [note |-> "x"]

DefMetaKeys == {"mcp-use/widget", "ui", "mcp-use/propsSchema", "custom"}

DefMetas == { [k \in ks |-> DefMetaValue(k)] : ks \in SUBSET DefMetaKeys }

ListingMetadatas ==
    { EmptyMap, CspOf([connectDomains |-> <<Cdn>>]), "prefersBorder" :> TRUE,
      CspOf([connectDomains |-> NonSequence]) }

ListingDefs ==
    { MkDef(type, "w", "A", "unset", meta, metadata, <<>>) :
          type \in {"mcpApps", "appsSdk", "rawHtml"}, meta \in DefMetas,
          metadata \in ListingMetadatas }

InitListing ==
    /\ RegistrarIdle
    /\ input \in [definition : ListingDefs]
    /\ output = NoResult

\* the resourceMeta the registrar puts on the resource and the resource
\* template, next to what buildResourceUiMeta derives for the definition
ApplyResourceMeta ==
    /\ output = NoResult
    /\ output' = [kind |-> "resourceMeta",
                  meta |-> ResourceMetaOf(input.definition),
                  ui |-> buildResourceUiMeta(input.definition)]
    /\ UNCHANGED <<registrarVars, input>>

NextListing == ApplyResourceMeta

SpecListing == InitListing /\ [][NextListing]_vars

----------------------------------------------------------------------------

(* Read handlers suspended across a hot update *)

\* A read handler in two steps.  Up to its await the handler has resolved
\* latestDef and started createWidgetUIResource(latestDef, ...); the
\* continuation sets the URI on the resource built and returns.  The pending
\* invocation is [closure, latestDef, uri, regCount]: the callback that runs,
\* its local latestDef, the URI asked for (a template read), and the number of
\* registrations made when it started.
BeginRead(name, via, template) ==
    /\ input = NoInput
    /\ output = NoResult
    /\ \E closure \in
          IF template
          THEN (IF via = "dispatch" /\ ("template:" \o name) \in DOMAIN dispatch
                THEN {dispatch["template:" \o name]} ELSE {})
               \cup (IF via = "registration"
                     THEN {resourceTemplates[k].handler :
                               k \in TemplateKeysOf(resourceTemplates, name)}
                     ELSE {})
          ELSE (IF via = "dispatch" /\ ("resource:" \o name) \in DOMAIN dispatch
                THEN {dispatch["resource:" \o name]} ELSE {})
               \cup (IF via = "registration"
                     THEN {resources[k].handler : k \in ResourceKeysOf(resources, name)}
                     ELSE {}) :
          input' = [kind |-> "pendingRead", template |-> template,
                    closure |-> closure,
                    latestDef |-> getLatestDefinition(closure),
                    uri |-> IF template THEN MintedUri(name) ELSE closure.resourceUri,
                    regCount |-> regCount]
    /\ UNCHANGED <<registrarVars, output>>

\* the continuation after the await: uiResource.resource.uri = ...; return
FinishRead ==
    /\ input.kind = "pendingRead"
    /\ output' = [kind |-> IF input.template THEN "templateRead" ELSE "resourceRead",
                  name |-> input.closure.definition.name,
                  definition |-> input.latestDef,
                  uri |-> input.uri,
                  template |-> input.template,
                  closure |-> input.closure,
                  updatesMeanwhile |-> regCount - input.regCount]
    /\ input' = NoInput
    /\ UNCHANGED registrarVars

StartRead == \E name \in Names, via \in Vias, template \in BOOLEAN :
                 BeginRead(name, via, template)

NextRead ==
    \/ Register
    \/ StartRead
    \/ FinishRead

SpecRead == Init /\ [][NextRead]_vars

----------------------------------------------------------------------------
(* widgets whose names extend one another *)

\* names of which one is another followed by "-" and a further segment; the
\* last one ends in the build id of the second server of ServerPool
PrefixNames == {"a", "a-b", "a-b1"}

PrefixPool ==
    { MkDef(type, name, title, "unset", EmptyMap, EmptyMap,
            IF type = "appsSdk" THEN <<SdkBlock>> ELSE <<>>) :
        type \in {"appsSdk", "mcpApps"}, name \in PrefixNames, title \in {"A", "B"} }

RegisterPrefixed == \E definition \in PrefixPool : uiResourceRegistration(definition)

SpecPrefix == Init /\ [][RegisterPrefixed]_vars

----------------------------------------------------------------------------

(* enrichDefinitionWithServerOrigin on the caller's objects *)

\* JavaScript objects and arrays live at addresses: a heap maps an address to
\* an object whose fields hold values or addresses.  The caller's definition
\* is the object at "definition", its metadata, csp and domain arrays the
\* objects below it.
DefinitionAddress == "definition"
MetadataAddress == "definition.metadata"
CspAddress == "definition.metadata.csp"
ArrayAddress(cspAddress, f) == cspAddress \o "." \o f

\* the caller's heap for a definition given by value
HeapOf(definition) ==
    LET md == definition.metadata
        csp == IF Has(md, "csp") THEN md.csp ELSE EmptyMap
        arrays == [a \in {ArrayAddress(CspAddress, f) : f \in DOMAIN csp} |->
                      csp[CHOOSE f \in DOMAIN csp : ArrayAddress(CspAddress, f) = a]]
    IN  (DefinitionAddress :>
            [definition EXCEPT !.metadata = IF md = EmptyMap THEN Undefined
                                            ELSE MetadataAddress])
        @@ (IF md = EmptyMap THEN EmptyMap
            ELSE MetadataAddress :>
                    [k \in DOMAIN md |-> IF k = "csp" THEN CspAddress ELSE md[k]])
        @@ (IF Has(md, "csp")
            THEN CspAddress :> [f \in DOMAIN csp |-> ArrayAddress(CspAddress, f)]
            ELSE EmptyMap)
        @@ arrays

\* the definition, by value, that the object at an address stands for
ValueAt(heap, address) ==
    LET object == heap[address]
        CspValue(cspAddress) ==
            [f \in DOMAIN heap[cspAddress] |-> heap[heap[cspAddress][f]]]
        md == IF object.metadata = Undefined THEN EmptyMap
              ELSE [k \in DOMAIN heap[object.metadata] |->
                       IF k = "csp" THEN CspValue(heap[object.metadata].csp)
                       ELSE heap[object.metadata][k]]
    IN  [object EXCEPT !.metadata = md]

\* faulty variant of EnrichOnHeap: an existing csp object is not copied, the
\* three lists are assigned on the caller's csp object
EnrichOnHeap_sharesCsp(heap, address, serverOrigin) ==
    IF serverOrigin = "" \/ heap[address].type # "mcpApps"
    THEN [heap |-> heap, result |-> address]
    ELSE LET definition == heap[address]
             metadata == IF definition.metadata # Undefined
                         THEN heap[definition.metadata] ELSE EmptyMap
             cspAddress == IF Has(metadata, "csp") THEN metadata.csp
                           ELSE "enrichedMetadata.csp"
             csp == IF Has(metadata, "csp") THEN heap[metadata.csp] ELSE EmptyMap
             Replaced(f) == ~Has(csp, f) \/ ~Includes(heap[csp[f]], serverOrigin)
             replaced == {f \in InjectedFields : Replaced(f)}
             arrays == [a \in {ArrayAddress("enrichedMetadata.csp", f) : f \in replaced} |->
                          LET f == CHOOSE g \in replaced :
                                       ArrayAddress("enrichedMetadata.csp", g) = a
                          IN  IF Has(csp, f) THEN Append(heap[csp[f]], serverOrigin)
                              ELSE <<serverOrigin>>]
             enrichedCsp == [f \in (DOMAIN csp) \cup InjectedFields |->
                                IF f \in replaced
                                THEN ArrayAddress("enrichedMetadata.csp", f)
                                ELSE csp[f]]
         IN  [heap |-> ("enriched" :> [definition EXCEPT !.metadata = "enrichedMetadata"])
                       @@ ("enrichedMetadata" :> (("csp" :> cspAddress) @@ metadata))
                       @@ (cspAddress :> enrichedCsp)
                       @@ arrays @@ heap,
              result |-> "enriched"]

\* enrichDefinitionWithServerOrigin statement by statement: the spread copies
\* {...definition.metadata}, {...enrichedMetadata.csp} and [...list,
\* serverOrigin] are new objects, every other field keeps the address it held
EnrichOnHeap(heap, address, serverOrigin) ==
    IF serverOrigin = "" \/ heap[address].type # "mcpApps"
    THEN [heap |-> heap, result |-> address]
    ELSE LET definition == heap[address]
             metadata == IF definition.metadata # Undefined
                         THEN heap[definition.metadata] ELSE EmptyMap
             csp == IF Has(metadata, "csp") THEN heap[metadata.csp] ELSE EmptyMap
             Replaced(f) == ~Has(csp, f) \/ ~Includes(heap[csp[f]], serverOrigin)
             replaced == {f \in InjectedFields : Replaced(f)}
             arrays == [a \in {ArrayAddress("enrichedMetadata.csp", f) : f \in replaced} |->
                          LET f == CHOOSE g \in replaced :
                                       ArrayAddress("enrichedMetadata.csp", g) = a
                          IN  IF Has(csp, f) THEN Append(heap[csp[f]], serverOrigin)
                              ELSE <<serverOrigin>>]
             enrichedCsp == [f \in (DOMAIN csp) \cup InjectedFields |->
                                IF f \in replaced
                                THEN ArrayAddress("enrichedMetadata.csp", f)
                                ELSE csp[f]]
         IN  [heap |-> ("enriched" :> [definition EXCEPT !.metadata = "enrichedMetadata"])
                       @@ ("enrichedMetadata" :>
                              (("csp" :> "enrichedMetadata.csp") @@ metadata))
                       @@ ("enrichedMetadata.csp" :> enrichedCsp)
                       @@ arrays @@ heap,
              result |-> "enriched"]

\* the registrar's call of enrichDefinitionWithServerOrigin on the caller's
\* definition; nothing after it in uiResourceRegistration assigns to a field
\* of the definition
ApplyEnrichOnHeap ==
    /\ output = NoResult
    /\ LET before == HeapOf(input.definition)
           enriched == EnrichOnHeap(before, DefinitionAddress, input.serverOrigin)
       IN  output' = [kind |-> "heap", before |-> before,
                      after |-> enriched.heap, result |-> enriched.result]
    /\ UNCHANGED <<registrarVars, input>>

SpecHeap == InitEnrich /\ [][ApplyEnrichOnHeap]_vars

----------------------------------------------------------------------------

(* detectSchemaType next to the registrar's inline detection *)

\* "_def" in propsOrSchema: of the sources drawn here, the typed (Zod object)
\* schemas are the ones that carry _def
HasDef(propsOrSchema) == propsOrSchema.isZod

\* detectSchemaType(propsOrSchema).type
detectSchemaType(propsOrSchema) ==
    IF ~propsOrSchema.present THEN "null"
    ELSE IF propsOrSchema.isObject /\ HasDef(propsOrSchema) THEN "zod"
    ELSE IF /\ propsOrSchema.isObject
            /\ (propsOrSchema.type # "" \/ propsOrSchema.properties # <<>>)
    THEN "json"
    ELSE IF propsOrSchema.isObject /\ ~HasDef(propsOrSchema) THEN "widgetProps"
    ELSE "null"

\* the class the registrar's inline detection puts a source in, in
\* detectSchemaType's words
InlineSchemaType(propsOrSchema) ==
    LET branch == ResolveToolSchema(propsOrSchema).branch
    IN  CASE branch = "schema"     -> "zod"
          [] branch = "jsonSchema" -> "json"
          [] branch = "legacy"     -> "widgetProps"
          [] OTHER                 -> "null"

ApplyDetectSchemaType ==
    /\ output = NoResult
    /\ LET propsOrSchema == PropsOrSchema(input.props, input.widgetMetadataSchema)
       IN  output' = [kind |-> "detect", source |-> propsOrSchema,
                      detected |-> detectSchemaType(propsOrSchema),
                      inline |-> InlineSchemaType(propsOrSchema)]
    /\ UNCHANGED <<registrarVars, input>>

SpecDetect == InitSchema /\ [][ApplyDetectSchemaType]_vars

----------------------------------------------------------------------------

(* cli/src/utils/update-check.ts: parseSemver and isNewer *)

IsDigit(c) == c \in {"0", "1", "2", "3", "4", "5", "6", "7", "8", "9"}

DigitValue(c) == CHOOSE d \in 0..9 : SubSeq("0123456789", d + 1, d + 1) = c

\* the index after the run of digits (\d+) that starts at index i
RECURSIVE DigitRun(_, _)
DigitRun(s, i) ==
    IF i <= Len(s) /\ IsDigit(SubSeq(s, i, i)) THEN DigitRun(s, i + 1) ELSE i

\* parseInt(digits, 10) of a non-empty string of digits
RECURSIVE parseInt(_)
parseInt(digits) ==
    IF Len(digits) = 0 THEN 0
    ELSE 10 * parseInt(SubSeq(digits, 1, Len(digits) - 1))
            + DigitValue(SubSeq(digits, Len(digits), Len(digits)))

\* parseSemver(version): the match of /^(\d+)\.(\d+)\.(\d+)/ as three
\* numbers, or null (the empty sequence)
parseSemver(version) ==
    LET end1 == DigitRun(version, 1)
        end2 == DigitRun(version, end1 + 1)
        end3 == DigitRun(version, end2 + 1)
    IN  IF /\ end1 > 1
           /\ end1 <= Len(version) /\ SubSeq(version, end1, end1) = "."
           /\ end2 > end1 + 1
           /\ end2 <= Len(version) /\ SubSeq(version, end2, end2) = "."
           /\ end3 > end2 + 1
        THEN <<parseInt(SubSeq(version, 1, end1 - 1)),
               parseInt(SubSeq(version, end1 + 1, end2 - 1)),
               parseInt(SubSeq(version, end2 + 1, end3 - 1))>>
        ELSE <<>>

\* the for loop of isNewer from index i on
RECURSIVE IsNewerFrom(_, _, _)
IsNewerFrom(a, b, i) ==
    IF i > Len(a) THEN FALSE
    ELSE IF b[i] > a[i] THEN TRUE
    ELSE IF b[i] < a[i] THEN FALSE
    ELSE IsNewerFrom(a, b, i + 1)

\* faulty variant of isNewer: any greater part makes the candidate newer
isNewer_anyPart(current, candidate) ==
    LET a == parseSemver(current)
        b == parseSemver(candidate)
    IN  IF a = <<>> \/ b = <<>> THEN FALSE
        ELSE \E i \in 1..Len(a) : b[i] > a[i]

\* isNewer(current, candidate)
isNewer(current, candidate) ==
    LET a == parseSemver(current)
        b == parseSemver(candidate)
    IN  IF a = <<>> \/ b = <<>> THEN FALSE
        ELSE IsNewerFrom(a, b, 1)

\* version numbers with one and with two digits
Parts == {0, 9, 10}

\* a version string together with the triple it was written from; the triple
\* is empty when the string does not start with X.Y.Z
WellFormedVersions ==
    { [text |-> ToString(t[1]) \o "." \o ToString(t[2]) \o "." \o ToString(t[3]),
       triple |-> t] : t \in [1..3 -> Parts] }

SuffixedVersions ==
    { [text |-> "10.9.0-beta.1", triple |-> <<10, 9, 0>>],
      [text |-> "9.10.10+build.5", triple |-> <<9, 10, 10>>],
      [text |-> "0.9.10.4", triple |-> <<0, 9, 10>>] }

MalformedVersions ==
    { [text |-> malformed, triple |-> <<>>] :
        malformed \in {"", "latest", "v9.10.0", "9.10", "9..10", "9.10.x", ".9.10.0"} }

VersionPool == WellFormedVersions \cup SuffixedVersions \cup MalformedVersions

InitSemver ==
    /\ RegistrarIdle
    /\ input \in [a : VersionPool, b : VersionPool, c : VersionPool]
    /\ output = NoResult

\* isNewer on each pair of three version strings
ApplyIsNewer ==
    /\ output = NoResult
    /\ output' = [kind |-> "isNewer",
                  aa |-> isNewer(input.a.text, input.a.text),
                  ab |-> isNewer(input.a.text, input.b.text),
                  ba |-> isNewer(input.b.text, input.a.text),
                  bc |-> isNewer(input.b.text, input.c.text),
                  ac |-> isNewer(input.a.text, input.c.text)]
    /\ UNCHANGED <<registrarVars, input>>

SpecSemver == InitSemver /\ [][ApplyIsNewer]_vars

----------------------------------------------------------------------------

(* cli/src/utils/update-check.ts: the version lookup and its cache *)

\* In this part `input` is what the checker runs against, [cache, now,
\* ticks]: the cache file, the clock in milliseconds and the number of times
\* the clock advanced; `output` is the record of the last run.

CACHE_TTL_MS == 24 * 60 * 60 * 1000

MaxTicks == 2

\* the cache file: missing, there with content JSON.parse rejects, or an
\* entry; lastChecked is the ISO string of a time ([iso |-> ms]) or a string
\* that is no date
NoCacheFile == [state |-> "missing", lastChecked |-> "", latestVersion |-> ""]
UnreadableCacheFile == [NoCacheFile EXCEPT !.state = "unreadable"]
CacheEntry(lastChecked, latestVersion) ==
    [state |-> "entry", lastChecked |-> lastChecked, latestVersion |-> latestVersion]

\* new Date(ms).toISOString(): the time to the millisecond, as text
ToISOString(ms) == <<"iso", ms>>

\* new Date(text).getTime(): the time an ISO string denotes, or NaN (the
\* empty sequence)
DateGetTime(text) == IF Len(text) = 2 /\ text[1] = "iso" THEN <<text[2]>> ELSE <<>>

NotADate == <<"soon">>

\* readCache(): the parsed entry, or null (the empty sequence) when the file
\* cannot be read or parsed
readCache(cache) == IF cache.state = "entry" THEN <<cache>> ELSE <<>>

\* faulty variant of IsFresh: an entry of exactly the TTL's age is still fresh
IsFresh_atTtl(age) == age # <<>> /\ age[1] <= CACHE_TTL_MS

\* age < CACHE_TTL_MS, false for NaN
IsFresh(age) == age # <<>> /\ age[1] < CACHE_TTL_MS

\* what the registry request comes to: a body with a version, a body
\* without one, a response that is not ok, or a rejected or aborted request
RegistryVersions == {"9.10.0", "10.0.0"}
NetworkOutcomes ==
    {[kind |-> "ok", version |-> v] : v \in RegistryVersions}
    \cup {[kind |-> k, version |-> ""] : k \in {"noVersion", "notOk", "throws"}}

\* fetchLatestVersion(): the version, or null
fetchLatestVersion(net) == IF net.kind = "ok" THEN <<net.version>> ELSE <<>>

\* writeCache(latestVersion): the new file, or the old one when mkdir or
\* writeFile throws
writeCache(cache, latestVersion, now, disk) ==
    IF disk = "ok" THEN CacheEntry(ToISOString(now), latestVersion) ELSE cache

\* getLatestVersion(): what it returns, whether it fetched and called
\* writeCache, and the cache file it leaves
getLatestVersion(cache, now, net, disk) ==
    LET entry == readCache(cache)
        lastChecked == IF entry # <<>> THEN DateGetTime(entry[1].lastChecked) ELSE <<>>
        age == IF lastChecked # <<>> THEN <<now - lastChecked[1]>> ELSE <<>>
        fetched == fetchLatestVersion(net)
    IN  IF entry # <<>> /\ IsFresh(age)
        THEN [returned |-> <<entry[1].latestVersion>>, fetched |-> FALSE,
              wroteCache |-> FALSE, cache |-> cache]
        ELSE IF fetched # <<>>
        THEN [returned |-> fetched, fetched |-> TRUE, wroteCache |-> TRUE,
              cache |-> writeCache(cache, fetched[1], now, disk)]
        ELSE [returned |-> <<>>, fetched |-> TRUE, wroteCache |-> FALSE, cache |-> cache]

\* resolveInstalledVersion(projectPath): the installed version, or null
InstalledVersions == {<<>>, <<"9.10.0">>, <<"not-a-version">>}

\* try { ... } catch { } around the body of notifyIfUpdateAvailable: whatever
\* the body throws is dropped
CatchUpdateCheckError(thrown) == FALSE

\* notifyIfUpdateAvailable(projectPath): console.log may throw as anything
\* else may; the try/catch around the body swallows it
notifyIfUpdateAvailable(installed, net, disk, consoleThrows) ==
    LET lookup == getLatestVersion(input.cache, input.now, net, disk)
        lookedUp == installed # <<>>
        printed == /\ lookedUp
                   /\ lookup.returned # <<>>
                   /\ isNewer(installed[1], lookup.returned[1])
    IN  /\ input' = [input EXCEPT !.cache = IF lookedUp THEN lookup.cache ELSE @]
        /\ output' = [kind |-> "notify", lookedUp |-> lookedUp,
                      cacheBefore |-> input.cache, now |-> input.now, net |-> net,
                      cacheAfter |-> IF lookedUp THEN lookup.cache ELSE input.cache,
                      returned |-> IF lookedUp THEN lookup.returned ELSE <<>>,
                      fetched |-> lookedUp /\ lookup.fetched,
                      wroteCache |-> lookedUp /\ lookup.wroteCache,
                      printed |-> printed /\ ~consoleThrows,
                      caught |-> printed /\ consoleThrows,
                      threw |-> CatchUpdateCheckError(printed /\ consoleThrows)]
        /\ UNCHANGED registrarVars

\* time passes: a millisecond, or a millisecond less than the TTL
Tick(ms) ==
    /\ input.ticks < MaxTicks
    /\ input' = [input EXCEPT !.now = @ + ms, !.ticks = @ + 1]
    /\ UNCHANGED <<registrarVars, output>>

\* the cache file is removed, damaged or rewritten by hand between runs
CacheFileChanges(cache) ==
    /\ input.cache # cache
    /\ input' = [input EXCEPT !.cache = cache]
    /\ UNCHANGED <<registrarVars, output>>

InitUpdateCheck ==
    /\ RegistrarIdle
    /\ input = [cache |-> NoCacheFile, now |-> 0, ticks |-> 0]
    /\ output = NoResult

Notify ==
    \E installed \in InstalledVersions, net \in NetworkOutcomes,
       disk \in {"ok", "fails"}, consoleThrows \in BOOLEAN :
        notifyIfUpdateAvailable(installed, net, disk, consoleThrows)
TimePasses == \E ms \in {1, CACHE_TTL_MS - 1} : Tick(ms)
CacheLost ==
    \E cache \in {NoCacheFile, UnreadableCacheFile, CacheEntry(NotADate, "9.10.0")} :
        CacheFileChanges(cache)

NextUpdateCheck ==
    \/ Notify
    \/ TimePasses
    \/ CacheLost

SpecUpdateCheck == InitUpdateCheck /\ [][NextUpdateCheck]_vars

----------------------------------------------------------------------------

(* the project scaffolder: choice of the package manager and installation *)

\* In this part `input` is one run's command line and machine, [options,
\* userAgent, install, available]: the --yarn/--npm/--pnpm flags,
\* npm_config_user_agent, whether dependencies are to be installed (the
\* --install flag or the prompt's answer) and the managers whose install
\* succeeds; `output` is the run's position in program.action.

Managers == {"npm", "pnpm", "yarn"}

UserAgents == {"", "npm/10 node/v20", "pnpm/8 npm/? node/v20", "yarn/1 npm/? node/v20",
               "bun/1"}

\* detectPackageManager(): the manager, or null (the empty sequence)
detectPackageManager(userAgent) ==
    IF IndexOf(userAgent, "yarn") > 0 THEN <<"yarn">>
    ELSE IF IndexOf(userAgent, "pnpm") > 0 THEN <<"pnpm">>
    ELSE IF IndexOf(userAgent, "npm") > 0 THEN <<"npm">>
    ELSE <<>>

\* usedPackageManager before the installation
ChosenPackageManager(options, userAgent) ==
    IF options.yarn THEN "yarn"
    ELSE IF options.npm THEN "npm"
    ELSE IF options.pnpm THEN "pnpm"
    ELSE IF detectPackageManager(userAgent) # <<>> THEN detectPackageManager(userAgent)[1]
    ELSE "npm"

\* isKnownManager
IsKnownManager(options, userAgent) ==
    options.yarn \/ options.npm \/ options.pnpm \/ detectPackageManager(userAgent) # <<>>

ManagersToTry(options, userAgent) ==
    IF IsKnownManager(options, userAgent)
    THEN <<ChosenPackageManager(options, userAgent)>>
    ELSE <<"npm", "pnpm", "yarn">>

\* faulty variant of LoopGoesOn: no break after a successful install
LoopGoesOn_noBreak(run) == Len(run.tried) < Len(run.managersToTry)

\* whether the for loop over managersToTry has another iteration: the list
\* is not used up and no iteration left by break
LoopGoesOn(run) == Len(run.tried) < Len(run.managersToTry) /\ ~run.installed

InitScaffold ==
    /\ RegistrarIdle
    /\ input \in [options : [yarn : BOOLEAN, npm : BOOLEAN, pnpm : BOOLEAN],
                  userAgent : UserAgents, install : BOOLEAN,
                  available : SUBSET Managers]
    /\ output = NoResult

\* the statements up to the installation loop
ChooseManager ==
    /\ output = NoResult
    /\ output' = [kind |-> "create",
                  phase |-> IF input.install THEN "installing" ELSE "installed",
                  usedPackageManager |->
                      ChosenPackageManager(input.options, input.userAgent),
                  managersToTry |-> IF input.install
                                    THEN ManagersToTry(input.options, input.userAgent)
                                    ELSE <<>>,
                  tried |-> <<>>, installed |-> FALSE, reported |-> ""]
    /\ UNCHANGED <<registrarVars, input>>

\* one iteration of the loop: runPackageManager(pm, ...) resolves or rejects
TryManager ==
    /\ output.kind = "create"
    /\ output.phase = "installing"
    /\ LoopGoesOn(output)
    /\ LET pm == output.managersToTry[Len(output.tried) + 1]
           succeeded == pm \in input.available
       IN  output' = [output EXCEPT
                         !.tried = Append(@, pm),
                         !.installed = succeeded,
                         !.usedPackageManager = IF succeeded THEN pm ELSE @]
    /\ UNCHANGED <<registrarVars, input>>

\* the loop is left
LeaveLoop ==
    /\ output.kind = "create"
    /\ output.phase = "installing"
    /\ ~LoopGoesOn(output)
    /\ output' = [output EXCEPT !.phase = "installed"]
    /\ UNCHANGED <<registrarVars, input>>

\* "MCP server created successfully!" and the next steps, which name the
\* commands of usedPackageManager
ReportCreated ==
    /\ output.kind = "create"
    /\ output.phase = "installed"
    /\ output' = [output EXCEPT !.phase = "created",
                                !.reported = output.usedPackageManager]
    /\ UNCHANGED <<registrarVars, input>>

NextScaffold ==
    \/ ChooseManager
    \/ TryManager
    \/ LeaveLoop
    \/ ReportCreated

SpecScaffold == InitScaffold /\ [][NextScaffold]_vars

----------------------------------------------------------------------------

(* buildDualProtocolMetadata applied on its own *)

OldCsp == [connect_domains |-> <<"https://old">>]

\* a value a tool's metadata holds under key k before the merge
ExistingValue(k) == IF k = "openai/widgetCSP" THEN OldCsp ELSE "old:" \o k

ExistingKeys == {"custom", "ui.resourceUri", "openai/outputTemplate",
                 "openai/widgetCSP", "openai/toolInvocation/invoking"}

ExistingMetas == { [k \in ks |-> ExistingValue(k)] : ks \in SUBSET ExistingKeys }

DualDefs ==
    { MkDef("mcpApps", "w", "A", "unset", EmptyMap, EmptyMap, <<>>),
      MkDef("mcpApps", "w", "A", "unset", EmptyMap,
            CspOf([connectDomains |-> <<Cdn>>]), <<>>),
      MkDef("appsSdk", "w", "A", "unset", EmptyMap, EmptyMap, <<>>),
      MkDef("appsSdk", "w", "A", "unset", EmptyMap, EmptyMap, <<SdkBlock>>) }

DualUris == {"ui://widget/w.html", "ui://widget/w-b1.html"}

InitDual ==
    /\ RegistrarIdle
    /\ input \in [definition : DualDefs, uri : DualUris, existing : ExistingMetas]
    /\ output = NoResult

\* buildDualProtocolMetadata(definition, uri, existing), together with the
\* three fragments the adapters build for the same arguments
ApplyDual ==
    /\ output = NoResult
    /\ output' = [kind |-> "dual",
                  result |-> buildDualProtocolMetadata(input.definition, input.uri,
                                                       input.existing),
                  mcpAppsTool |-> McpAppsBuildToolMetadata(input.definition, input.uri),
                  appsSdkTool |-> AppsSdkBuildToolMetadata(input.definition, input.uri),
                  appsSdkResource |-> AppsSdkBuildResourceMetadata(input.definition)]
    /\ UNCHANGED <<registrarVars, input>>

NextDual == ApplyDual

SpecDual == InitDual /\ [][NextDual]_vars

----------------------------------------------------------------------------

(* Claims *)

Returned == lastCall.kind = "returned"
ReRegistration == Returned /\ lastCall.registeredBefore
FirstRegistration == Returned /\ ~lastCall.registeredBefore

\* C1: a second registration of a name (any variant) leaves exactly one
\* resource record and at most one tool record for the name, makes no
\* server.resource / server.resourceTemplate / server.tool / addWidgetTool
\* call, and keeps the identity of the existing records.
C1_ReRegistrationCreatesNothing ==
    ReRegistration =>
        LET n == lastCall.name IN
        /\ Cardinality(ResourceKeysOf(resources, n)) = 1
        /\ Cardinality(ToolKeysOf(tools, n)) <= 1
        /\ lastCall.resourceCalls = 0
        /\ lastCall.templateCalls = 0
        /\ lastCall.toolCalls = 0
        /\ IdsAt(resources, ResourceKeysOf(resources, n)) = lastCall.prevResourceIds
        /\ IdsAt(resourceTemplates, TemplateKeysOf(resourceTemplates, n))
               = lastCall.prevTemplateIds
        /\ IdsAt(tools, ToolKeysOf(tools, n)) = lastCall.prevToolIds

\* C2: every resource-read, template-read and tool-call handler, whenever it
\* was created, produces its result from the latest definition registered
\* for its name.
C2_HandlersUseLatestDefinition ==
    (\/ lastResult.kind \in {"resourceRead", "templateRead"}
     \/ (lastResult.kind = "toolCall" /\ ~lastResult.isError))
        => lastResult.definition = latest[lastResult.name]

\* C3: after a re-registration of a name, every resource and resource-template
\* entry of the name, and its tool entry when the new definition exposes a
\* tool, carries the config (title, metadata) and the handler of the new
\* definition; the resource's title is the second title.
C3_HotUpdateReplacesConfigAndHandler ==
    ReRegistration =>
        LET n == lastCall.name
            d == latest[n]
            uri == ResourceUriOf(d, buildId)
        IN
        /\ \A k \in ResourceKeysOf(resources, n) :
              /\ resources[k].config.title = d.title
              /\ resources[k].config.meta = ResourceMetaOf(d)
              /\ resources[k].handler = Closure(d, uri)
        /\ \A k \in TemplateKeysOf(resourceTemplates, n) :
              /\ resourceTemplates[k].config.title = d.title
              /\ resourceTemplates[k].config.meta = ResourceMetaOf(d)
              /\ resourceTemplates[k].handler = Closure(d, uri)
        /\ lastCall.exposeAsTool =>
           \A k \in ToolKeysOf(tools, n) :
              /\ tools[k].config.title = d.title
              /\ tools[k].config.meta = ToolMetadataOf(d, uri)
              /\ tools[k].handler = Closure(d, uri)

\* C4 (as claimed): a re-registration with a change sends every live session
\* exactly one resource-list-changed notification, and no tool-list-changed
\* notification when the widget has no tool.
C4_ReRegistrationNotifiesResources ==
    (ReRegistration /\ lastCall.changed) =>
        /\ \A s \in DOMAIN sessions : lastCall.resourceListChanged[s] = 1
        /\ lastCall.name \notin DOMAIN tools =>
              \A s \in DOMAIN sessions : lastCall.toolListChanged[s] = 0

\* C4 (amended): a registration of a name that is already in the
\* widgetDefinitions store sends no resource-list-changed notification to any
\* session, and when the name has no tool entry it sends no tool-list-changed
\* notification and schedules none.
C4_HotUpdateSendsNoResourceNotification ==
    (Returned /\ lastCall.isUpdate) =>
        /\ \A s \in DOMAIN sessions : lastCall.resourceListChanged[s] = 0
        /\ lastCall.name \notin DOMAIN tools =>
              /\ \A s \in DOMAIN sessions : lastCall.toolListChanged[s] = 0
              /\ ~lastCall.scheduled

C4_Witness ==
    /\ Returned /\ lastCall.isUpdate /\ lastCall.changed
    /\ lastCall.name \notin DOMAIN tools
    /\ DOMAIN sessions = SessionIds
    /\ \A s \in DOMAIN sessions :
          lastCall.resourceListChanged[s] = 0 /\ lastCall.toolListChanged[s] = 0

\* C5: for every name whose latest registration has exposeAsTool=false, the
\* resource (and for appsSdk/mcpApps the resource template) is registered,
\* there is no tool entry, a tool call of the name returns an error result,
\* and a read of the resource succeeds.
C5_ExposeAsToolFalseSkipsTool ==
    \A n \in DOMAIN latest :
        latest[n].exposeAsTool = "false" =>
            /\ ResourceKeysOf(resources, n) # {}
            /\ latest[n].type \in {"appsSdk", "mcpApps"} =>
                  TemplateKeysOf(resourceTemplates, n) # {}
            /\ n \notin DOMAIN tools
            /\ (lastResult.kind = "toolCall" /\ lastResult.name = n) =>
                  lastResult.isError
            /\ \A k \in ResourceKeysOf(resources, n) :
                  resourceReadCallback(resources[k].handler).uri = resources[k].config.uri

\* C6: exposeAsTool resolves to true when unset everywhere, an explicit
\* false beats a legacy true, and every name whose latest registration
\* resolves to true has a tool entry to call.
C6_ExposeAsToolResolution ==
    /\ \A d \in DefPool :
          /\ (d.exposeAsTool = "unset" /\ ~Has(d.meta, "mcp-use/widget"))
                => ResolveExposeAsTool(d)
          /\ d.exposeAsTool = "false" => ~ResolveExposeAsTool(d)
    /\ \A n \in DOMAIN latest :
          ResolveExposeAsTool(latest[n]) => n \in DOMAIN tools

\* domain set of one CSP category, {} when the category is absent
CamelSet(meta, f) ==
    IF Has(meta, "ui") /\ Has(meta["ui"], "csp") /\ Has(meta["ui"]["csp"], f)
    THEN {meta["ui"]["csp"][f][i] : i \in 1..Len(meta["ui"]["csp"][f])}
    ELSE {}
SnakeSet(meta, f) ==
    IF Has(meta, "openai/widgetCSP") /\ Has(meta["openai/widgetCSP"], SnakeOf(f))
    THEN LET l == meta["openai/widgetCSP"][SnakeOf(f)] IN {l[i] : i \in 1..Len(l)}
    ELSE {}

\* C7: for every mcpApps widget, openai/widgetCSP on its tool and ui.csp on
\* its resource and resource template describe the same domain sets.
C7_CspInSync ==
    \A n \in DOMAIN widgetDefinitions :
        (widgetDefinitions[n].widgetType = "mcpApps" /\ n \in DOMAIN tools) =>
            \A f \in CamelFields :
                /\ \A k \in ResourceKeysOf(resources, n) :
                      CamelSet(resources[k].config.meta, f)
                          = SnakeSet(tools[n].config.meta, f)
                /\ \A k \in TemplateKeysOf(resourceTemplates, n) :
                      CamelSet(resourceTemplates[k].config.meta, f)
                          = SnakeSet(tools[n].config.meta, f)

\* C8: for an mcpApps definition whose Apps SDK fragment carries
\* openai/widgetCSP, ui.csp returned by buildResourceUiMeta holds, for every
\* category declared as a list, the same list in the same order.
C8_UiCspEqualsSnakeCaseSource ==
    (output.kind = "buildResourceUiMeta" /\ input.type = "mcpApps"
        /\ Has(output.fragment, "openai/widgetCSP")) =>
        LET src == output.fragment["openai/widgetCSP"] IN
        \A f \in CamelFields :
            (Has(src, SnakeOf(f)) /\ IsArray(src[SnakeOf(f)])) =>
                /\ output.ui # <<>>
                /\ Has(output.ui[1], "csp")
                /\ Has(output.ui[1]["csp"], f)
                /\ output.ui[1]["csp"][f] = src[SnakeOf(f)]

C8_Witness ==
    /\ output.kind = "buildResourceUiMeta"
    /\ Has(output.fragment, "openai/widgetCSP")
    /\ output.ui # <<>>
    /\ Has(output.ui[1], "csp")
    /\ DOMAIN output.ui[1]["csp"] = {"frameDomains", "baseUriDomains"}
    /\ output.ui[1]["csp"]["frameDomains"] = <<Cdn, HostOrigin>>
    /\ output.ui[1]["csp"]["baseUriDomains"] = <<HostOrigin, Cdn>>

C10_HotUpdateNotifiesToolsAtOnce ==
    (ReRegistration /\ lastCall.prevToolIds # {} /\ lastCall.exposeAsTool) =>
        \A s \in DOMAIN sessions :
            lastCall.toolListChanged[s] = IF sessions[s] # "noNotifier" THEN 1 ELSE 0

\* the sendToolListChanged calls a completed notification loop has made: one
\* for every live session that has the notifier, none for the others
OncePerNotifier(calls) ==
    \A s \in DOMAIN sessions :
        calls[s] = IF sessions[s] # "noNotifier" THEN 1 ELSE 0

C12_NotificationIsBestEffort ==
    /\ Returned => ~lastCall.notifyError
    /\ (Returned /\ lastCall.notifiedTools) => OncePerNotifier(lastCall.toolListChanged)
    /\ lastResult.kind = "timer" =>
          /\ ~lastResult.error
          /\ OncePerNotifier(lastResult.toolListChanged)

C12_Witness ==
    /\ Returned /\ lastCall.notifiedTools
    /\ \E s, t \in DOMAIN sessions :
          /\ s < t
          /\ sessions[s] = "throws" /\ sessions[t] = "ok"
          /\ lastCall.toolListChanged[s] = 1
          /\ lastCall.toolListChanged[t] = 1
    /\ ~lastCall.notifyError

\* occurrences of x in a list
Count(list, x) == Cardinality({i \in 1..Len(list) : list[i] = x})

\* metadata.csp of a definition, {} when there is none
CspListsOf(definition) ==
    IF Has(definition.metadata, "csp") THEN definition.metadata.csp ELSE EmptyMap

\* C13: enriching an enriched definition with the same origin changes
\* nothing, and a CSP list of the result holds the origin once, or as often
\* as the given definition already held it.
C13_EnrichIsIdempotent ==
    output.kind = "enrich" =>
        LET o == input.serverOrigin
            before == CspListsOf(input.definition)
            after == CspListsOf(output.once)
        IN  /\ output.twice = output.once
            /\ \A f \in DOMAIN after :
                  LET had == IF Has(before, f) THEN Count(before[f], o) ELSE 0
                  IN  Count(after[f], o) <= IF had > 0 THEN had ELSE 1

C13_Witness ==
    /\ output.kind = "enrich"
    /\ input.serverOrigin = HostOrigin
    /\ input.definition.type = "mcpApps"
    /\ Has(CspListsOf(input.definition), "connectDomains")
    /\ ~Includes(CspListsOf(input.definition)["connectDomains"], HostOrigin)
    /\ output.once # input.definition
    /\ output.twice = output.once

\* C14: for an mcpApps definition and a known origin o, each of
\* resourceDomains, connectDomains and baseUriDomains is <<o>> when it was
\* absent, unchanged when it held o, and otherwise the given list followed by
\* o; a widget without CSP gets ui.csp with the three lists equal to <<o>>.
C14_EnrichAppendsOriginSetLike ==
    (output.kind = "enrich" /\ input.definition.type = "mcpApps"
        /\ input.serverOrigin # "") =>
        LET o == input.serverOrigin
            before == CspListsOf(input.definition)
            after == CspListsOf(output.once)
        IN  /\ \A f \in InjectedFields :
                  /\ Has(after, f)
                  /\ after[f] = IF ~Has(before, f) THEN <<o>>
                                ELSE IF Includes(before[f], o) THEN before[f]
                                ELSE before[f] \o <<o>>
            /\ ~Has(input.definition.metadata, "csp") =>
                  /\ Has(output.resourceMeta, "ui")
                  /\ Has(output.resourceMeta["ui"], "csp")
                  /\ \A f \in InjectedFields :
                        /\ Has(output.resourceMeta["ui"]["csp"], f)
                        /\ output.resourceMeta["ui"]["csp"][f] = <<o>>

C14_Witness ==
    /\ output.kind = "enrich"
    /\ input.definition.name = "kanban"
    /\ input.definition.metadata = EmptyMap
    /\ input.serverOrigin = "https://host:3000"
    /\ \A f \in InjectedFields :
          output.resourceMeta["ui"]["csp"][f] = <<"https://host:3000">>

\* C18: the tool entry created for an appsSdk or mcpApps widget carries
\* openai/outputTemplate equal to the widget's resource URI
\* ui://widget/<name>..., each of the four Apps SDK tool fields exactly when
\* the widget's appsSdkMetadata has it, with the same value, and for mcpApps
\* also ui.resourceUri with the same URI.
C18_CreatedToolCarriesProtocolMetadata ==
    (Returned /\ lastCall.toolCalls = 1 /\ lastCall.type \in {"appsSdk", "mcpApps"}) =>
        LET n == lastCall.name
            d == latest[n]
            meta == tools[n].config.meta
            uri == resources[n \o ":" \o ResourceUriOf(d, buildId)].config.uri
            block == IF d.appsSdkMetadata = <<>> THEN EmptyMap ELSE d.appsSdkMetadata[1]
        IN  /\ uri = "ui://widget/" \o n \o getBuildIdPart(buildId) \o ".html"
            /\ Has(meta, "openai/outputTemplate")
            /\ meta["openai/outputTemplate"] = uri
            /\ \A k \in AppsSdkToolFields :
                  /\ Has(meta, k) <=> Has(block, k)
                  /\ Has(block, k) => meta[k] = block[k]
            /\ d.type = "mcpApps" =>
                  (Has(meta, "ui.resourceUri") /\ meta["ui.resourceUri"] = uri)

\* C19: when an appsSdk or mcpApps widget is registered, every tool registered
\* before it whose widget config names it carries the widget's protocol
\* metadata (openai/outputTemplate, and ui.resourceUri for mcpApps) from that
\* moment on, and keeps the _meta keys it had.
C19_ExistingToolsArePatched ==
    (Returned /\ lastCall.type \in {"appsSdk", "mcpApps"}) =>
        LET n == lastCall.name
            uri == ResourceUriOf(latest[n], buildId)
        IN  \A t \in DOMAIN tools :
                (t # n /\ tools[t].config.widget = <<n>>) =>
                    LET meta == tools[t].config.meta
                    IN  /\ Has(meta, "openai/outputTemplate")
                        /\ meta["openai/outputTemplate"] = uri
                        /\ lastCall.type = "mcpApps" =>
                              (Has(meta, "ui.resourceUri") /\ meta["ui.resourceUri"] = uri)
                        /\ \A k \in DOMAIN ManualToolMeta :
                              Has(meta, k) /\ meta[k] = ManualToolMeta[k]

\* C20: a registration of a definition with an unrecognized variant throws,
\* and the call leaves the widgetDefinitions store, the resource, resource
\* template and tool registrations (tool metadata included) and the pending
\* notifications as they were, and sends no notification.
C20_UnknownVariantChangesNothing ==
    [][ /\ (regCount' = regCount + 1 /\ lastCall'.kind = "returned") =>
              lastCall'.type \in WidgetTypes
        /\ lastCall'.kind = "threw" =>
              /\ lastCall'.type \notin WidgetTypes
              /\ UNCHANGED <<widgetDefinitions, resources, resourceTemplates, tools,
                             dispatch, timers>>
              /\ \A s \in DOMAIN sessions :
                    /\ lastCall'.resourceListChanged[s] = 0
                    /\ lastCall'.toolListChanged[s] = 0
              /\ ~lastCall'.scheduled ]_vars

C20_Witness ==
    /\ lastCall.kind = "threw"
    /\ lastCall.name \in DOMAIN widgetDefinitions
    /\ ManualToolName \in DOMAIN tools
    /\ tools[ManualToolName].config.widget = <<lastCall.name>>
    /\ DOMAIN sessions # {}

\* C15: two resolutions with the same variant, name and build id give the
\* same URI and MIME type, in getResourceUriAndMimeType and in the registrar's
\* switch, and a resolution of an unknown variant throws.
C15_UriResolverIsPure ==
    output.kind = "resolve" =>
        /\ output.helper[1] = output.helper[2]
        /\ output.registrar[1] = output.registrar[2]
        /\ input.first.type \notin WidgetTypes =>
              (output.helper[1].threw /\ output.registrar[1].threw)

\* C16: for each of the five variants both getResourceUriAndMimeType and the
\* registrar's switch return a result, with the MIME type of the variant.
C16_MimeTypeByVariant ==
    (output.kind = "resolve" /\ input.first.type \in WidgetTypes) =>
        LET expected ==
                CASE input.first.type = "externalUrl" -> "text/uri-list"
                  [] input.first.type = "rawHtml" -> "text/html"
                  [] input.first.type = "remoteDom" ->
                        "application/vnd.mcp-ui.remote-dom+javascript"
                  [] input.first.type = "appsSdk" -> "text/html+skybridge"
                  [] input.first.type = "mcpApps" -> "text/html;profile=mcp-app"
        IN  /\ ~output.helper[1].threw
            /\ output.helper[1].mimeType = expected
            /\ ~output.registrar[1].threw
            /\ output.registrar[1].mimeType = expected

DualCall ==
    output.kind = "toolCall" /\ input.definition.type \in {"appsSdk", "mcpApps"}

\* what the author of the called definition supplies for the call: the tool
\* output, and the structured content
AuthorOutput ==
    IF Has(input.definition, "toolOutput")
    THEN <<ToolOutputOf(input.definition.toolOutput, input.params)>>
    ELSE <<>>
AuthorStructuredContent ==
    IF AuthorOutput # <<>> THEN AuthorOutput[1].structuredContent
    ELSE IF Has(input.definition, "structuredContent")
    THEN <<IF input.definition.structuredContent.isFunction
           THEN [query |-> input.params.message]
           ELSE input.definition.structuredContent.result>>
    ELSE <<>>

C21_RegistrationIsAppendOnly ==
    [][/\ DOMAIN widgetDefinitions \subseteq DOMAIN widgetDefinitions'
       /\ DOMAIN resources \subseteq DOMAIN resources'
       /\ DOMAIN resourceTemplates \subseteq DOMAIN resourceTemplates'
       /\ DOMAIN tools \subseteq DOMAIN tools'
       /\ DOMAIN latest \subseteq DOMAIN latest'
       /\ \A n \in DOMAIN latest : ResourceKeysOf(resources', n) # {}]_vars

\* a name of the store is registered again, as another variant, next to the
\* tool of another widget
C21_Witness ==
    /\ ReRegistration
    /\ lastCall.type \in LegacyTypes
    /\ lastCall.name \in DOMAIN widgetDefinitions
    /\ TemplateKeysOf(resourceTemplates, lastCall.name) # {}
    /\ ManualToolName \in DOMAIN tools

\* C22: buildDualProtocolMetadata holds exactly the keys of the existing
\* metadata and of the three fragments; on a key collision the value is that
\* of the latest in the order existing < MCP Apps tool fragment < Apps SDK
\* tool fragment < Apps SDK resource fragment, so a key of the existing
\* metadata that no fragment has keeps its value.
C22_DualMetadataMergePrecedence ==
    output.kind = "dual" =>
        LET r == output.result
            e == input.existing
            m == output.mcpAppsTool
            a == output.appsSdkTool
            rs == output.appsSdkResource
        IN  /\ DOMAIN r = DOMAIN e \cup DOMAIN m \cup DOMAIN a \cup DOMAIN rs
            /\ \A k \in DOMAIN r :
                  r[k] = IF k \in DOMAIN rs THEN rs[k]
                         ELSE IF k \in DOMAIN a THEN a[k]
                         ELSE IF k \in DOMAIN m THEN m[k]
                         ELSE e[k]

\* the existing metadata collides with a key of each fragment and has a key
\* of its own
C22_Witness ==
    /\ output.kind = "dual"
    /\ DOMAIN input.existing = ExistingKeys
    /\ "openai/widgetCSP" \in DOMAIN output.appsSdkResource
    /\ "openai/toolInvocation/invoking" \in DOMAIN output.appsSdkTool
    /\ output.result["custom"] = ExistingValue("custom")
    /\ output.result["openai/widgetCSP"] # OldCsp

\* the fields of the converter's input, none for undefined or a non-object
WcspFieldsOf(wcsp) ==
    IF wcsp = <<>> \/ wcsp = <<NonObject>> THEN EmptyMap ELSE wcsp[1]

\* C23: the CSP format converter returns for every input: each of the six
\* snake_case fields is in the result under its camelCase name exactly when
\* its value is a sequence, with that value; no other key is in the result;
\* the result is undefined exactly when no field was converted, as for an
\* undefined or non-object input.
C23_CspConverterNeverFails ==
    output.kind = "snakeToCamel" =>
        LET src == WcspFieldsOf(input.wcsp)
            sequences == {f \in CamelFields :
                            SnakeOf(f) \in DOMAIN src /\ src[SnakeOf(f)] # NonSequence}
        IN  /\ (output.result = <<>>) <=> (sequences = {})
            /\ output.result # <<>> =>
                  /\ DOMAIN output.result[1] = sequences
                  /\ \A f \in sequences : output.result[1][f] = src[SnakeOf(f)]

\* one field is converted next to a non-sequence field that is left out
C23_Witness ==
    /\ output.kind = "snakeToCamel"
    /\ input.wcsp # <<>>
    /\ input.wcsp # <<NonObject>>
    /\ DOMAIN input.wcsp[1] = {"connect_domains", "frame_domains"}
    /\ input.wcsp[1]["frame_domains"] = NonSequence
    /\ input.wcsp[1]["connect_domains"] = <<Cdn>>
    /\ output.result = <<[connectDomains |-> <<Cdn>>]>>

\* the shapes of a props/schema source the resolution tells apart
LooksTyped(src) == src.isObject /\ src.isZod
LooksLikeJsonSchema(src) ==
    src.isObject /\ (src.hasSchemaKey \/ (src.type = "object" /\ src.properties # <<>>))

\* C24: the tool's schema is resolved from the props/schema source, first
\* match wins: a typed schema is passed through as schema; otherwise a source
\* with "$schema", or with type "object" and properties, is a JSON schema and
\* each property is one input, required exactly when its name is in the
\* required list, of type "string" when it declares none; otherwise any other
\* source that is there is converted as a legacy props map; exactly one branch
\* applies to a source that is there.
C24_SchemaResolvedInPriorityOrder ==
    (output.kind = "schema" /\ output.source.present) =>
        LET src == output.source
            tool == output.tool
        IN  /\ tool.branch = IF LooksTyped(src) THEN "schema"
                             ELSE IF LooksLikeJsonSchema(src) THEN "jsonSchema"
                             ELSE "legacy"
            /\ tool.schema = <<>> \/ tool.inputs = <<>>
            /\ tool.branch = "schema" => tool.schema = <<src>> /\ tool.inputs = <<>>
            /\ tool.branch = "jsonSchema" =>
                  /\ tool.schema = <<>>
                  /\ src.properties # <<>> =>
                        /\ tool.inputs # <<>>
                        /\ DOMAIN tool.inputs[1] = DOMAIN src.properties[1]
                        /\ \A n \in DOMAIN tool.inputs[1] :
                              /\ tool.inputs[1][n].required <=> (n \in src.required)
                              /\ tool.inputs[1][n].type =
                                    IF src.properties[1][n].type = "" THEN "string"
                                    ELSE src.properties[1][n].type
            /\ tool.branch = "legacy" =>
                  tool.schema = <<>> /\ tool.inputs = <<convertPropsToInputs(src)>>

\* a JSON schema with a required and an optional property, one of them
\* without a type
C24_Witness ==
    /\ output.kind = "schema"
    /\ output.tool.branch = "jsonSchema"
    /\ output.source.required = {"query"}
    /\ output.tool.inputs # <<>>
    /\ DOMAIN output.tool.inputs[1] = PropNames
    /\ output.tool.inputs[1]["query"] = [type |-> "string", required |-> TRUE]
    /\ output.tool.inputs[1]["limit"] = [type |-> "number", required |-> FALSE]

\* the CSP object of a definition, empty when it declares none
CspOfDef(definition) ==
    IF Has(definition.metadata, "csp") THEN definition.metadata.csp ELSE EmptyMap

\* C25: enrichDefinitionWithServerOrigin returns the definition it was given
\* when the variant is not mcpApps or the server origin is unknown; when it
\* applies, only resourceDomains, connectDomains and baseUriDomains of the CSP
\* can differ: every other CSP field, every other metadata field and every
\* other field of the definition keeps its value.
C25_EnrichChangesOnlyInjectedLists ==
    output.kind = "enrich" =>
        LET d == input.definition
            e == output.once
            applies == d.type = "mcpApps" /\ input.serverOrigin # ""
        IN  /\ ~applies => e = d
            /\ applies =>
                  /\ [e EXCEPT !.metadata = d.metadata] = d
                  /\ DOMAIN e.metadata = DOMAIN d.metadata \cup {"csp"}
                  /\ \A k \in DOMAIN d.metadata \ {"csp"} : e.metadata[k] = d.metadata[k]
                  /\ DOMAIN CspOfDef(e) = DOMAIN CspOfDef(d) \cup InjectedFields
                  /\ \A f \in DOMAIN CspOfDef(d) \ InjectedFields :
                        CspOfDef(e)[f] = CspOfDef(d)[f]

\* the enrichment applies to a definition that declares frame domains,
\* directives and metadata fields besides the CSP
C25_Witness ==
    /\ output.kind = "enrich"
    /\ input.definition.type = "mcpApps" /\ input.serverOrigin = HostOrigin
    /\ {"frameDomains", "scriptDirectives", "styleDirectives"}
          \subseteq DOMAIN CspOfDef(input.definition)
    /\ {"prefersBorder", "domain"} \subseteq DOMAIN input.definition.metadata
    /\ output.once # input.definition
    /\ CspOfDef(output.once)["frameDomains"] = <<Cdn>>

\* C26: every entry of the widgetDefinitions store holds the variant tag and
\* the metadata block, which is undefined for appsSdk, and nothing else: no
\* mcp-use/* key, no props, handler or presentation body; after a registration
\* of an appsSdk or mcpApps widget the entry of its name is the bookkeeping of
\* the enriched definition just registered.
C26_StoreHoldsMinimalBookkeeping ==
    /\ \A n \in DOMAIN widgetDefinitions :
          /\ DOMAIN widgetDefinitions[n] = {"widgetType", "metadata"}
          /\ widgetDefinitions[n].widgetType \in {"appsSdk", "mcpApps"}
          /\ widgetDefinitions[n].widgetType = "appsSdk" =>
                widgetDefinitions[n].metadata = EmptyMap
    /\ (Returned /\ lastCall.type \in {"appsSdk", "mcpApps"}) =>
          LET n == lastCall.name
              d == lastCall.definition
              origin == IF serverBaseUrl # "" THEN UrlOrigin(serverBaseUrl) ELSE ""
          IN  /\ n \in DOMAIN widgetDefinitions
              /\ widgetDefinitions[n].widgetType = d.type
              /\ d.type = "mcpApps" =>
                    /\ widgetDefinitions[n].metadata = latest[n].metadata
                    /\ \A k \in DOMAIN d.metadata \ {"csp"} :
                          widgetDefinitions[n].metadata[k] = d.metadata[k]
                    /\ origin # "" =>
                          \A f \in InjectedFields :
                              Includes(widgetDefinitions[n].metadata.csp[f], origin)

\* an mcpApps definition with a host-private _meta block and a CSP is
\* registered on a server whose origin is known
C26_Witness ==
    /\ Returned /\ lastCall.type = "mcpApps"
    /\ serverBaseUrl # ""
    /\ Has(lastCall.definition.meta, "mcp-use/widget")
    /\ Has(lastCall.definition.metadata, "csp")
    /\ widgetDefinitions[lastCall.name].metadata.csp.connectDomains
          = <<HostOrigin>>

\* C27: the listing metadata of a resource or resource template never has
\* the mcp-use/widget key; its ui object is there exactly when the widget is
\* mcpApps and buildResourceUiMeta derives a non-empty object, and is then
\* that object, never the ui object of the definition's own _meta; every
\* other key of the definition's _meta is carried at the top level, outside
\* ui.
C27_ListingMetaKeepsPrivateKeysOutOfUi ==
    output.kind = "resourceMeta" =>
        LET d == input.definition
            m == output.meta
            derived == d.type = "mcpApps" /\ output.ui # <<>>
        IN  /\ "mcp-use/widget" \notin DOMAIN m
            /\ ("ui" \in DOMAIN m) <=> derived
            /\ derived =>
                  /\ m["ui"] = output.ui[1]
                  /\ m["ui"] # AuthorUi
                  /\ DOMAIN m["ui"] \subseteq {"csp", "prefersBorder", "domain", "permissions"}
            /\ \A k \in DOMAIN d.meta \ {"mcp-use/widget", "ui"} :
                  /\ k \in DOMAIN m
                  /\ m[k] = d.meta[k]
            /\ DOMAIN m \subseteq (DOMAIN d.meta \ {"mcp-use/widget"}) \cup {"ui"}

\* a definition whose _meta has a ui object, the internal block and a private
\* key gets the derived ui object
C27_Witness ==
    /\ output.kind = "resourceMeta"
    /\ DOMAIN input.definition.meta = DefMetaKeys
    /\ input.definition.type = "mcpApps"
    /\ "ui" \in DOMAIN output.meta
    /\ output.meta["ui"] = [csp |-> [connectDomains |-> <<Cdn>>]]
    /\ output.meta["mcp-use/propsSchema"] = DefMetaValue("mcp-use/propsSchema")

\* the records of widget name m in the three registration maps
RecordsOf(rs, ts, tl, m) ==
    [resources |-> [k \in ResourceKeysOf(rs, m) |-> rs[k]],
     templates |-> [k \in TemplateKeysOf(ts, m) |-> ts[k]],
     tools     |-> [k \in ToolKeysOf(tl, m) |-> tl[k]]]

\* C28: a registration of name n, first or hot update, leaves the
\* widgetDefinitions entry and the resource, resource-template and tool
\* records of every other widget name as they were, and changes of a
\* separately registered tool at most the metadata, and that only when the
\* tool's widget config names n.
C28_NamesAreIndependent ==
    [][regCount' = regCount + 1 =>
        LET n == lastCall'.name IN
        /\ \A m \in Names \ {n} :
              /\ (m \in DOMAIN widgetDefinitions') <=> (m \in DOMAIN widgetDefinitions)
              /\ m \in DOMAIN widgetDefinitions =>
                    widgetDefinitions'[m] = widgetDefinitions[m]
              /\ RecordsOf(resources', resourceTemplates', tools', m)
                    = RecordsOf(resources, resourceTemplates, tools, m)
        /\ ManualToolName \in DOMAIN tools =>
              /\ ManualToolName \in DOMAIN tools'
              /\ [tools'[ManualToolName] EXCEPT
                     !.config.meta = tools[ManualToolName].config.meta]
                    = tools[ManualToolName]
              /\ tools[ManualToolName].config.widget # <<n>> =>
                    tools'[ManualToolName] = tools[ManualToolName]]_vars

\* name w is registered again after name v was registered, next to the tool
\* of the application
C28_Witness ==
    /\ Returned /\ lastCall.isUpdate /\ lastCall.name = "w"
    /\ "v" \in DOMAIN widgetDefinitions
    /\ TemplateKeysOf(resourceTemplates, "v") # {}
    /\ "v" \in DOMAIN tools
    /\ ManualToolName \in DOMAIN tools
    /\ Has(tools[ManualToolName].config.meta, "ui.resourceUri")

\* the closures the registrations of a behaviour can create for a name: one
\* per definition of that name, with the URI resolved from that definition
VersionsOf(name) ==
    LET origin == IF serverBaseUrl # "" THEN UrlOrigin(serverBaseUrl) ELSE ""
    IN  { Closure(enrichDefinitionWithServerOrigin(d, origin),
                  ResourceUriOf(enrichDefinitionWithServerOrigin(d, origin), buildId)) :
              d \in {e \in DefPool : e.name = name /\ e.type \in WidgetTypes} }

\* C29: a resource-read or template-read handler that is suspended while a
\* hot update of its name runs returns contents made from one definition
\* version: the definition used and the URI of a resource read are those of
\* one registration, a template read answers with the URI it was asked for,
\* and no lock is taken.
C29_ReadObservesOneVersion ==
    output.kind \in {"resourceRead", "templateRead"} =>
        \E version \in VersionsOf(output.name) :
            /\ output.definition = version.definition
            /\ output.closure = version
            /\ ~output.template => output.uri = version.resourceUri
            /\ output.template => output.uri = MintedUri(output.name)

\* a read that started before a hot update changed the variant of its name
\* ends after it
C29_Witness ==
    /\ output.kind = "resourceRead"
    /\ output.updatesMeanwhile > 0
    /\ output.name \in DOMAIN latest
    /\ latest[output.name].type # output.definition.type
    /\ ResourceUriOf(latest[output.name], buildId) # output.uri

\* the template pattern of a widget with its {id} segment filled in
FillTemplate(name, b, id) ==
    "ui://widget/" \o name \o (IF b = "" THEN "" ELSE "-" \o b) \o "-" \o id \o ".html"

\* C30: a resource template, named <name>-dynamic with the URI pattern
\* ui://widget/<name>[-<buildId>]-{id}.html, is registered by registrations of
\* appsSdk and mcpApps widgets only, at most once per name, never by a
\* registration of an externalUrl, rawHtml or remoteDom widget; every URI that
\* generateUniqueWidgetUri(name, buildId) mints is the pattern of the widget's
\* template with its id segment filled in.
C30_TemplateOncePerDualWidget ==
    /\ Returned =>
          /\ lastCall.templateCalls = 1 =>
                /\ lastCall.type \in {"appsSdk", "mcpApps"}
                /\ lastCall.prevTemplateIds = {}
          /\ lastCall.type \in LegacyTypes => lastCall.templateCalls = 0
          /\ (lastCall.type \in {"appsSdk", "mcpApps"}) =>
                Cardinality(TemplateKeysOf(resourceTemplates, lastCall.name)) = 1
    /\ \A n \in Names :
          \A k \in TemplateKeysOf(resourceTemplates, n) :
              /\ k = n \o "-dynamic"
              /\ resourceTemplates[k].config.uriTemplate = FillTemplate(n, buildId, "{id}")
              /\ \A id \in RandomIds :
                    generateUniqueWidgetUri(n, buildId, ".html", id)
                        = FillTemplate(n, buildId, id)
    /\ lastResult.kind = "templateRead" =>
          \E id \in RandomIds : lastResult.uri = FillTemplate(lastResult.name, buildId, id)

\* a widget registered as a legacy variant and then as mcpApps has its one
\* template, on a server with a build id, and a minted URI is read through it
C30_Witness ==
    /\ lastResult.kind = "templateRead"
    /\ buildId # ""
    /\ regCount = MaxRegs
    /\ Cardinality(ResourceKeysOf(resources, lastResult.name)) > 1
    /\ Cardinality(TemplateKeysOf(resourceTemplates, lastResult.name)) = 1

\* C31: after any sequence of registrations, a name is tool-exposed exactly
\* when its most recent registration's exposeAsTool resolves to true: a
\* tool entry exists for the name, and a tool call of the name succeeds,
\* exactly in that case.
C31_ToolExposureFollowsLatestRegistration ==
    \A n \in DOMAIN latest :
        /\ (n \in DOMAIN tools) <=> ResolveExposeAsTool(latest[n])
        /\ (lastResult.kind = "toolCall" /\ lastResult.name = n) =>
              (lastResult.isError <=> ~ResolveExposeAsTool(latest[n]))

\* the URIs a tool's _meta advertises as its output template
OutputTemplateUris(meta) ==
    {meta[k] : k \in (DOMAIN meta) \cap {"openai/outputTemplate", "ui.resourceUri"}}

\* the position of a step in a registration's sequence of calls, 0 if absent
StepIndex(steps, step) ==
    IF \E i \in 1..Len(steps) : steps[i] = step
    THEN CHOOSE i \in 1..Len(steps) : steps[i] = step
    ELSE 0

UriTemplateMatches(uriTemplate, uri) ==
    LET open == IndexOf(uriTemplate, "{")
        close == IndexOf(uriTemplate, "}")
        prefix == SubSeq(uriTemplate, 1, open - 1)
        suffix == SubSeq(uriTemplate, close + 1, Len(uriTemplate))
        idLen == Len(uri) - Len(prefix) - Len(suffix)
    IN  /\ open > 0
        /\ close > open
        /\ idLen > 0
        /\ SubSeq(uri, 1, Len(prefix)) = prefix
        /\ SubSeq(uri, Len(uri) - Len(suffix) + 1, Len(uri)) = suffix
        /\ \A i \in (Len(prefix) + 1)..(Len(prefix) + idLen) : SubSeq(uri, i, i) # "/"

\* C33: the output-template URI a widget's tool advertises is matched by the
\* widget's own resource or resource template, and by the resource-template
\* pattern of no widget of another name.
C33_UrisOfDistinctWidgetsStayApart ==
    \A n \in (DOMAIN latest) \cap (DOMAIN tools) :
        \A uri \in OutputTemplateUris(tools[n].config.meta) :
            /\ \/ \E k \in ResourceKeysOf(resources, n) : resources[k].config.uri = uri
               \/ \E k \in TemplateKeysOf(resourceTemplates, n) :
                     UriTemplateMatches(resourceTemplates[k].config.uriTemplate, uri)
            /\ \A m \in (DOMAIN latest) \ {n} :
                  \A k \in TemplateKeysOf(resourceTemplates, m) :
                      ~UriTemplateMatches(resourceTemplates[k].config.uriTemplate, uri)

\* C34: the variant tag stored for a name is the variant of the name's most
\* recent successful registration, and a registration of a name that already
\* has a resource record is treated as an update.
C34_StoreTracksLatestVariant ==
    /\ \A n \in (DOMAIN widgetDefinitions) \cap (DOMAIN latest) :
          widgetDefinitions[n].widgetType = latest[n].type
    /\ (Returned /\ lastCall.prevResourceIds # {}) => lastCall.isUpdate

\* C35: the registrar leaves every object of the caller's definition as it
\* was: the definition, its metadata object, its csp object and each domain
\* array hold after the call what they held before; the enriched definition
\* is made of copies wherever it differs, and equals the enrichment by value.
C35_CallerDefinitionIsNotMutated ==
    output.kind = "heap" =>
        /\ \A a \in DOMAIN output.before :
              a \in DOMAIN output.after /\ output.after[a] = output.before[a]
        /\ ValueAt(output.after, DefinitionAddress) = input.definition
        /\ ValueAt(output.after, output.result)
              = enrichDefinitionWithServerOrigin(input.definition, input.serverOrigin)
        /\ output.result # DefinitionAddress =>
              output.after[output.result].metadata \notin DOMAIN output.before

\* an enrichment that applies to a definition with a csp object, one of whose
\* lists already holds the origin (the list is shared with the result) and
\* one of whose lists does not (the origin is appended to a copy)
C35_Witness ==
    /\ output.kind = "heap"
    /\ output.result # DefinitionAddress
    /\ CspAddress \in DOMAIN output.before
    /\ LET callerCsp == output.before[CspAddress]
           enrichedCsp == output.after[output.after[output.after[output.result].metadata].csp]
       IN  /\ \E f \in DOMAIN callerCsp : enrichedCsp[f] = callerCsp[f]
           /\ \E f \in DOMAIN callerCsp :
                 /\ enrichedCsp[f] # callerCsp[f]
                 /\ output.after[enrichedCsp[f]]
                       = Append(output.before[callerCsp[f]], input.serverOrigin)

\* C36: detectSchemaType and the registrar's inline detection put every
\* source in the same class; detectSchemaType answers "json" for an untyped
\* object exactly when the object has "$schema" or has type "object" together
\* with properties, "zod" for a typed schema, "widgetProps" for any other
\* object, and no type for an absent source.
C36_DetectSchemaTypeAgreesWithRegistrar ==
    output.kind = "detect" =>
        LET source == output.source
        IN  /\ source.isObject => output.detected = output.inline
            /\ ~source.present => output.detected = "null" /\ output.inline = "null"
            /\ source.isZod => output.detected = "zod"
            /\ (source.isObject /\ ~source.isZod) =>
                  (output.detected = "json" <=> LooksLikeJsonSchema(source))

\* lexicographic order of (major, minor, patch)
TripleLess(s, t) ==
    \E i \in 1..Len(s) : s[i] < t[i] /\ \A j \in 1..(i - 1) : s[j] = t[j]

\* C38: isNewer(current, candidate) is true exactly when both strings start
\* with X.Y.Z and candidate's triple is greater than current's in
\* lexicographic order; it is irreflexive, asymmetric and transitive, and
\* false when either string does not start with X.Y.Z.
C38_IsNewerIsStrictOrderOnTriples ==
    output.kind = "isNewer" =>
        /\ output.ab <=> /\ input.a.triple # <<>>
                         /\ input.b.triple # <<>>
                         /\ TripleLess(input.a.triple, input.b.triple)
        /\ ~output.aa
        /\ ~(output.ab /\ output.ba)
        /\ (output.ab /\ output.bc) => output.ac
        /\ (input.a.triple = <<>> \/ input.b.triple = <<>>) => ~output.ab /\ ~output.ba

\* a chain of three versions decided by numeric comparison of a two-digit part
C38_Witness ==
    /\ output.kind = "isNewer"
    /\ output.ab /\ output.bc /\ output.ac
    /\ input.a.text = "9.9.10"
    /\ input.b.text = "9.10.0"
    /\ input.c.text = "10.0.0"

\* C37: a run that looks the version up returns the cached version without a
\* fetch when the cache entry is younger than 24 hours, and fetches when the
\* entry is missing, unreadable or at least 24 hours old; the cache is
\* written only after a fetch that gave a version, so after a failed fetch
\* the cache file is what it was; and the run never throws.
C37_CacheIsTtlCache ==
    output.kind = "notify" =>
        LET before == output.cacheBefore
            checked == DateGetTime(before.lastChecked)
            young == /\ before.state = "entry"
                     /\ checked # <<>>
                     /\ output.now - checked[1] < CACHE_TTL_MS
        IN  /\ ~output.threw
            /\ output.lookedUp =>
                  /\ young => /\ ~output.fetched
                              /\ output.returned = <<before.latestVersion>>
                  /\ ~young => output.fetched
                  /\ output.wroteCache => output.fetched /\ output.net.kind = "ok"
                  /\ (output.fetched /\ output.net.kind # "ok") =>
                        /\ ~output.wroteCache
                        /\ output.returned = <<>>
            /\ ~output.wroteCache => output.cacheAfter = before

\* a run exactly 24 hours after the entry was written fetches again, the
\* fetch fails and the entry stays
C37_Witness ==
    /\ output.kind = "notify"
    /\ output.lookedUp
    /\ output.cacheBefore.state = "entry"
    /\ DateGetTime(output.cacheBefore.lastChecked) # <<>>
    /\ output.now - DateGetTime(output.cacheBefore.lastChecked)[1] = CACHE_TTL_MS
    /\ output.fetched
    /\ output.net.kind = "throws"
    /\ output.cacheAfter = output.cacheBefore

\* a run less than 24 hours after the entry was written answers from the cache
C37_WitnessFresh ==
    /\ output.kind = "notify"
    /\ output.lookedUp
    /\ output.cacheBefore.state = "entry"
    /\ ~output.fetched
    /\ output.now - DateGetTime(output.cacheBefore.lastChecked)[1] = CACHE_TTL_MS - 1

\* whether a sequence is an initial part of another
IsPrefix(s, t) == Len(s) <= Len(t) /\ \A i \in 1..Len(s) : s[i] = t[i]

\* C39: with no manager chosen by flag or detected, the managers are tried
\* in the order npm, pnpm, yarn, each at most once, a later one only after
\* every earlier one failed, and the loop stops at the first success, whose
\* manager is the one reported; with a manager chosen or detected only that
\* one is tried; and when every attempt failed the project is still reported
\* as created.
C39_ManagersTriedInOrderUntilSuccess ==
    output.kind = "create" =>
        LET known == \/ input.options.yarn \/ input.options.npm \/ input.options.pnpm
                     \/ detectPackageManager(input.userAgent) # <<>>
            tried == output.tried
        IN  /\ ~known => IsPrefix(tried, <<"npm", "pnpm", "yarn">>)
            /\ known => IsPrefix(tried, <<ChosenPackageManager(input.options,
                                                               input.userAgent)>>)
            /\ \A i \in 1..(Len(tried) - 1) : tried[i] \notin input.available
            /\ output.installed <=>
                  (tried # <<>> /\ tried[Len(tried)] \in input.available)
            /\ output.installed => output.usedPackageManager = tried[Len(tried)]
            /\ output.phase \in {"installed", "created"} =>
                  /\ input.install =>
                        \/ output.installed
                        \/ /\ known => Len(tried) = 1
                           /\ ~known => tried = <<"npm", "pnpm", "yarn">>
                  /\ ~input.install => tried = <<>>
            /\ output.phase = "created" => output.reported = output.usedPackageManager
            /\ output.phase \in {"installing", "installed", "created"}

\* npm is not available, pnpm installs: the loop stopped at pnpm, yarn was
\* not tried though it would install, and pnpm is the manager reported
C39_Witness ==
    /\ output.kind = "create"
    /\ output.phase = "created"
    /\ output.tried = <<"npm", "pnpm">>
    /\ input.available = {"pnpm", "yarn"}
    /\ output.reported = "pnpm"

\* every manager fails and the project is reported as created
C39_WitnessAllFail ==
    /\ output.kind = "create"
    /\ output.phase = "created"
    /\ output.tried = <<"npm", "pnpm", "yarn">>
    /\ ~output.installed

====
